---- MODULE Spec2Model ----
(***************************************************************************)
(* A model of the SnapLogic architecture designer: the text-flow engine of *)
(* the documentation generator, the library loader and shape factory, the  *)
(* architecture store, the auto-layout and the element generation.         *)
(***************************************************************************)
EXTENDS Integers, Sequences, FiniteSets, TLC

VARIABLES
    \* ---- text flow (documentationGenerator.ts, TextUtils) ----
    text,              \* the text handed to chunkText, a sequence of characters
    maxCharsPerLine,   \* the character budget of a line
    maxLinesPerChunk,  \* the line budget of a chunk
    chunks,            \* what chunkText returned
    wrapInput,         \* the line handed to the last direct wrapLine call
    wrapped,           \* what that wrapLine call returned
    textPc,            \* "input" | "chunked" | "wrapped"
    docCall,           \* the documentation function called and its arguments
    docReturn,         \* what that call returned
    \* ---- library loader, library manager, shape factory ----
    isLoaded,          \* LibraryLoaderService.isLoaded
    loadPromise,       \* LibraryLoaderService.loadPromise: NoPromise or the number of a load
    loadState,         \* the loads started so far: "pending" | "fulfilled" | "rejected" each
    libraryCache,      \* LibraryLoaderService.libraryCache: cache key -> elements
    library,           \* LibraryManager.library / libraryItems: shape type -> item kind
    useLibraryShapes,  \* ShapeFactory.useLibraryShapes
    counter,           \* the counter of generateIndex in excalidrawHelpers.ts
    lastCall,          \* the latest call made: its operation and arguments
    result,            \* the elements that call returned
    threw,             \* whether that call threw instead of returning
    \* ---- architecture store, auto-layout, element generation ----
    environments,      \* store.environments
    endpoints,         \* store.endpoints
    connections,       \* store.connections
    metadata,          \* store.metadata
    selectedItemId,    \* store.selectedItemId
    architectureDescription, \* store.architectureDescription
    exported,          \* the string the latest exportState() returned to its caller
    exportedAt,        \* the lists of the store when that exportState() was called
    positions,         \* the positions map of the latest autoLayout run
    envDimensions,     \* the envDimensions map of the latest autoLayout run
    \* ---- the clock the Sidebar reads ----
    now                \* what Date.now() returns, in milliseconds

docVars == <<docCall, docReturn>>

textVars == <<text, maxCharsPerLine, maxLinesPerChunk, chunks, wrapInput, wrapped, textPc,
              docVars>>

shapeVars == <<isLoaded, loadPromise, loadState, libraryCache, library, useLibraryShapes,
               counter, lastCall, result, threw>>

storeVars == <<environments, endpoints, connections, metadata, selectedItemId,
              architectureDescription>>

persistVars == <<exported, exportedAt>>

layoutVars == <<positions, envDimensions>>

clockVars == <<now>>

modelVars == <<storeVars, layoutVars, clockVars, persistVars>>

vars == <<textVars, shapeVars, modelVars>>

\* ------------------------------------------------------------------------
\* Bounds of the model
\* ------------------------------------------------------------------------
MaxTextLen == 6
MaxCharsBound == 4
MaxLinesBound == 2
MaxRand == 2
MaxCacheSize == 1
MaxCounter == 3
MaxEnvs == 2
MaxSnaplexes == 1
MaxNodes == 1
MaxEndpoints == 1
MaxConnections == 2
MaxSceneIndex == 25
MaxLayoutEnvs == 5
MaxLayoutSnaplexes == 3
MaxLayoutNodes == 11
MaxLayoutEndpoints == 2
MaxPassEnvs == 2
MaxPassSnaplexes == 2
MaxPassNodes == 6
MaxPassEndpoints == 1
MaxPassConnections == 1
MaxPassIndex == 40
MaxDocLines == 31
MaxDocRows == 14
MaxDocElements == 7

\* ------------------------------------------------------------------------
\* Text flow: TextUtils of documentationGenerator.ts
\* ------------------------------------------------------------------------
NL == "\n"
SP == " "
Alphabet == {"a", "b", SP, NL}
Ellipsis == <<".", ".", ".">>
MinCharsBound == 3
MaxClock == 1
MaxLoads == 2
MaxSidebarNodes == 2
MaxSidebarEndpoints == 2
MaxSidebarIndex == 50

Texts == UNION {[1..n -> Alphabet] : n \in 0..MaxTextLen}

\* value handed to Body as a computed value (a loop variable that is assigned once
\* and read many times)
With(value, Body(_)) == CHOOSE r \in {Body(v) : v \in {value}} : TRUE

Min(a, b) == IF a < b THEN a ELSE b
Max(a, b) == IF a > b THEN a ELSE b

\* String.prototype.split(sep) for a one-character separator: "" gives <<"">>; the
\* k-th part lies between the (k-1)-th and the k-th occurrence of the separator
split(s, sep) ==
    LET at == {i \in 1..Len(s) : s[i] = sep}
        pos(k) == IF k = 0 THEN 0
                  ELSE IF k > Cardinality(at) THEN Len(s) + 1
                  ELSE CHOOSE i \in at : Cardinality({j \in at : j <= i}) = k
    IN  [k \in 1..(Cardinality(at) + 1) |-> SubSeq(s, pos(k - 1) + 1, pos(k) - 1)]

\* Array.prototype.join(sep), the first half of the parts joined to the second
RECURSIVE join(_, _)
join(parts, sep) ==
    IF Len(parts) = 0 THEN <<>>
    ELSE IF Len(parts) = 1 THEN parts[1]
    ELSE With(Len(parts) \div 2,
              LAMBDA h : join(SubSeq(parts, 1, h), sep) \o <<sep>>
                         \o join(SubSeq(parts, h + 1, Len(parts)), sep))

\* String.prototype.substring(0, n): n is clamped to 0..length
substring0(s, n) == SubSeq(s, 1, Min(Max(n, 0), Len(s)))

\* wrapWords with the word that did not fit dropped when the line is flushed
RECURSIVE wrapWordsDropping(_, _, _, _, _)
wrapWordsDropping(words, i, maxChars, wrappedLines, currentLine) ==
    IF i > Len(words)
    THEN IF currentLine # <<>> THEN Append(wrappedLines, currentLine) ELSE wrappedLines
    ELSE LET word == words[i]
             testLine == IF currentLine = <<>> THEN word ELSE currentLine \o <<SP>> \o word
         IN  IF Len(testLine) <= maxChars
             THEN wrapWordsDropping(words, i + 1, maxChars, wrappedLines, testLine)
             ELSE IF currentLine # <<>>
                  THEN wrapWordsDropping(words, i + 1, maxChars,
                                         Append(wrappedLines, currentLine), <<>>)
                  ELSE wrapWordsDropping(words, i + 1, maxChars,
                                         Append(wrappedLines,
                                                substring0(word, maxChars - 3) \o Ellipsis),
                                         <<>>)

\* the for loop of wrapLine over words[i..]
RECURSIVE wrapWords(_, _, _, _, _)
wrapWords(words, i, maxChars, wrappedLines, currentLine) ==
    IF i > Len(words)
    THEN IF currentLine # <<>> THEN Append(wrappedLines, currentLine) ELSE wrappedLines
    ELSE LET word == words[i]
             testLine == IF currentLine = <<>> THEN word ELSE currentLine \o <<SP>> \o word
         IN  IF Len(testLine) <= maxChars
             THEN wrapWords(words, i + 1, maxChars, wrappedLines, testLine)
             ELSE IF currentLine # <<>>
                  THEN wrapWords(words, i + 1, maxChars,
                                 Append(wrappedLines, currentLine), word)
                  ELSE wrapWords(words, i + 1, maxChars,
                                 Append(wrappedLines,
                                        substring0(word, maxChars - 3) \o Ellipsis),
                                 <<>>)

wrapLine(line, maxChars) ==
    IF Len(line) <= maxChars THEN <<line>>
    ELSE wrapWords(split(line, SP), 1, maxChars, <<>>, <<>>)

\* chunks.push(currentChunk.join('\n')); currentChunk = []; currentChunkLines = 0
flushChunk(st) ==
    [chunks |-> Append(st.chunks, join(st.currentChunk, NL)),
     currentChunk |-> <<>>,
     currentChunkLines |-> 0]

pushLine(st, line) ==
    [st EXCEPT !.currentChunk = Append(@, line), !.currentChunkLines = @ + 1]

\* pushWrapped without the flush inside the loop
RECURSIVE pushWrappedNoFlush(_, _, _, _, _)
pushWrappedNoFlush(wrappedLines, j, last, maxLines, st) ==
    IF j > last THEN st
    ELSE IF j = last THEN pushLine(st, wrappedLines[j])
    ELSE With(pushWrappedNoFlush(wrappedLines, j, (j + last) \div 2, maxLines, st),
              LAMBDA next : pushWrappedNoFlush(wrappedLines, ((j + last) \div 2) + 1, last,
                                               maxLines, next))

\* the inner for loop of chunkText over wrappedLines[j..last]: one turn of the loop
\* when j = last, else the turns up to the middle and then the turns after it
RECURSIVE pushWrapped(_, _, _, _, _)
pushWrapped(wrappedLines, j, last, maxLines, st) ==
    IF j > last THEN st
    ELSE IF j = last
    THEN With(pushLine(st, wrappedLines[j]),
              LAMBDA pushed : IF pushed.currentChunkLines >= maxLines
                              THEN flushChunk(pushed) ELSE pushed)
    ELSE With(pushWrapped(wrappedLines, j, (j + last) \div 2, maxLines, st),
              LAMBDA next : pushWrapped(wrappedLines, ((j + last) \div 2) + 1, last,
                                        maxLines, next))

\* the outer for loop of chunkText over lines[i..last]: one turn of the loop when
\* i = last, else the turns up to the middle and then the turns after it
RECURSIVE chunkLines(_, _, _, _, _, _)
chunkLines(lines, i, last, maxChars, maxLines, st) ==
    IF i > last THEN st
    ELSE IF i = last
    THEN With(IF Len(lines[i]) <= maxChars
              THEN pushLine(st, lines[i])
              ELSE With(wrapLine(lines[i], maxChars),
                        LAMBDA wrappedLines :
                            pushWrapped(wrappedLines, 1, Len(wrappedLines), maxLines, st)),
              LAMBDA afterLine : IF afterLine.currentChunkLines >= maxLines
                                 THEN flushChunk(afterLine) ELSE afterLine)
    ELSE With(chunkLines(lines, i, (i + last) \div 2, maxChars, maxLines, st),
              LAMBDA next : chunkLines(lines, ((i + last) \div 2) + 1, last, maxChars,
                                       maxLines, next))

chunkText(t, maxChars, maxLines) ==
    With(split(t, NL),
         LAMBDA lines :
             With(chunkLines(lines, 1, Len(lines), maxChars, maxLines,
                             [chunks |-> <<>>, currentChunk |-> <<>>,
                              currentChunkLines |-> 0]),
                  LAMBDA st :
                      LET all == IF Len(st.currentChunk) > 0
                                 THEN Append(st.chunks, join(st.currentChunk, NL))
                                 ELSE st.chunks
                      IN  IF Len(all) > 0 THEN all ELSE <<t>>))

\* ------------------------------------------------------------------------
\* Elements: the fields of an ExcalidrawElement that the generators compute
\* (seed, versionNonce and updated are random or clock values no statement reads)
\* ------------------------------------------------------------------------
\* Number.prototype.toString() of a natural number
Digits == <<"0", "1", "2", "3", "4", "5", "6", "7", "8", "9">>

RECURSIVE ToStr(_)
ToStr(n) == IF n < 10 THEN Digits[n + 1] ELSE ToStr(n \div 10) \o Digits[(n % 10) + 1]

\* element ids are strings, built as the template literals of the generators build them
El(id, type, x, y, width, height, txt, index) ==
    [id |-> id, type |-> type, x |-> x, y |-> y, width |-> width, height |-> height,
     text |-> txt, index |-> index]

NoText == ""

\* generateIndex(): `a${Math.floor(counter / 2)}${counter % 2 === 0 ? 'V' : ''}`
generateIndex(c) == <<"a", c \div 2, IF c % 2 = 0 THEN "V" ELSE "">>

\* the index of an element whose order key is drawn from Date.now() and Math.random()
RandomIndex == <<"a", "random">>

\* ------------------------------------------------------------------------
\* The domain entities the shape factory is handed
\* ------------------------------------------------------------------------
NodeTypes == {"JCC", "FM"}
NodeSizes == {"medium", "L", "XL", "2XL"}
SnaplexTypes == {"cloudplex", "groundplex"}

Nodes == [id : {"n1"}, name : {"node-1"}, type : NodeTypes, size : NodeSizes,
          memoryOptimized : BOOLEAN]

Snaplexes == [id : {"s1"}, name : {"plex-1"}, type : SnaplexTypes]

\* the points and container sizes a shape is asked for
Points == {<<140, 350>>, <<210, 350>>}
SnaplexSizes == {<<450, 300>>, <<0, 0>>}

\* ------------------------------------------------------------------------
\* excalidrawHelpers.ts: the built-in generators
\* ------------------------------------------------------------------------
\* sizeMultipliers, in tenths
sizeMultipliers(size) ==
    CASE size = "medium" -> 10
      [] size = "L" -> 12
      [] size = "XL" -> 14
      [] size = "2XL" -> 16
      [] OTHER -> 10

createNodeElement(node, x, y, size, c) ==
    LET actualSize == (size * sizeMultipliers(node.size)) \div 10
        sizeIndicator == IF node.size # "medium" THEN " (" \o node.size \o ")" ELSE ""
        moIndicator == IF node.memoryOptimized /\ node.type = "JCC" THEN " MO" ELSE ""
        labelText == node.name \o sizeIndicator \o moIndicator
    IN  << El("node-" \o node.id, "ellipse", x, y, actualSize, actualSize, NoText,
              generateIndex(c)),
           El("label-node-" \o node.id, "text", x - 25, y + actualSize + 5,
              actualSize + 50, 15, labelText, generateIndex(c + 1)) >>

createSnaplexElement(snaplex, x, y, width, height, c) ==
    << El("snaplex-" \o snaplex.id, "rectangle", x, y, width, height, NoText,
          generateIndex(c)),
       El("label-snaplex-" \o snaplex.id, "text", x + (width \div 2) - 40, y + 5, 80, 20,
          snaplex.name, generateIndex(c + 1)) >>

\* ------------------------------------------------------------------------
\* libraryUtils: LibraryManager
\* ------------------------------------------------------------------------
ShapeTypes == {"cloudplex", "groundplex", "jcc_node", "fm_node"}

\* what the catalog holds for a shape type: no item, an item with no elements, an
\* item with elements, or an item whose elements field is missing (reading it throws)
ItemKinds == <<"absent", "empty", "shape", "malformed">>
TypeOrder == <<"cloudplex", "groundplex", "jcc_node", "fm_node">>

\* library = null and libraryItems empty: no type has an item
NoLibrary == [t \in ShapeTypes |-> "null"]

\* the catalogs a load may deliver: between them every shape type has every item kind
Catalogs ==
    {[t \in ShapeTypes |->
        ItemKinds[(((CHOOSE i \in 1..4 : TypeOrder[i] = t) + k) % 4) + 1]] : k \in 0..3}

\* the elements of a library item that has some
ItemElements ==
    << [type |-> "rectangle", x |-> 10, y |-> 20, width |-> 100, height |-> 60],
       [type |-> "text", x |-> 25, y |-> 30, width |-> 60, height |-> 20] >>

MinOf(S) == CHOOSE m \in S : \A n \in S : m <= n

\* generateId(): Math.random().toString(36).substr(2, 9); r and k name the draw
generateId(r, k) == "rnd" \o ToStr(r) \o "." \o ToStr(k)

\* cloneLibraryItem(type, x, y); r stands for the draws of Math.random() in this call
cloneLibraryItem(lib, type, x, y, r) ==
    IF lib[type] \in {"absent", "null"} THEN [threw |-> FALSE, elements |-> <<>>]
    ELSE IF lib[type] = "malformed" THEN [threw |-> TRUE, elements |-> <<>>]
    ELSE IF lib[type] = "empty" THEN [threw |-> FALSE, elements |-> <<>>]
    ELSE LET elements == ItemElements
             minX == MinOf({elements[k].x : k \in 1..Len(elements)})
             minY == MinOf({elements[k].y : k \in 1..Len(elements)})
         IN  [threw |-> FALSE,
              elements |-> [k \in 1..Len(elements) |->
                              El(generateId(r, k), elements[k].type,
                                 x + elements[k].x - minX, y + elements[k].y - minY,
                                 elements[k].width, elements[k].height, NoText,
                                 <<"a", "library">>)]]

\* ------------------------------------------------------------------------
\* libraryLoader.ts: LibraryLoaderService
\* ------------------------------------------------------------------------
cacheKey(type, x, y) == <<type, x, y>>

\* getShape(type, x, y): what it returns or throws, and the cache it leaves
\* (cache is this.libraryCache when the call is made)
getShape(cache, type, x, y, r) ==
    IF ~isLoaded
    THEN [threw |-> FALSE, elements |-> <<>>, cache |-> cache]
    ELSE IF cacheKey(type, x, y) \in DOMAIN cache
    THEN [threw |-> FALSE, elements |-> cache[cacheKey(type, x, y)], cache |-> cache]
    ELSE LET cloned == cloneLibraryItem(library, type, x, y, r)
         IN  IF cloned.threw
             THEN [threw |-> TRUE, elements |-> <<>>, cache |-> cache]
             ELSE [threw |-> FALSE, elements |-> cloned.elements,
                   cache |-> (cacheKey(type, x, y) :> cloned.elements) @@ cache]

\* ------------------------------------------------------------------------
\* shapeFactory.ts: ShapeFactory
\* ------------------------------------------------------------------------
indicatorTextOf(node) ==
    IF node.memoryOptimized /\ node.type = "JCC"
    THEN IF node.size # "medium" THEN "mo-" \o node.size ELSE "mo"
    ELSE IF node.size # "medium" THEN node.size ELSE ""

createNodeIndicators(node, x, y) ==
    LET hasIndicator == node.size # "medium" \/ (node.memoryOptimized /\ node.type = "JCC")
        indicatorText == indicatorTextOf(node)
        indicatorWidth == Max(30, Len(indicatorText) * 8 + 12)
        indicatorX == x + 5
        indicatorY == y + 37
    IN  IF hasIndicator
        THEN << El("indicator-bg-" \o node.id, "rectangle", indicatorX, indicatorY,
                   indicatorWidth, 25, NoText, RandomIndex),
                El("indicator-text-" \o node.id, "text", indicatorX + 6, indicatorY + 6,
                   indicatorWidth - 12, 15, indicatorText, RandomIndex) >>
        ELSE <<>>

\* what a create call returns or throws, and the cache and counter it leaves
Outcome(t, els, cache, c) == [threw |-> t, elements |-> els, cache |-> cache, counter |-> c]

\* the availability as of the latest check, not read again
lastCheckedAvailability == useLibraryShapes

\* this.checkLibraryAvailability(): what it stores in useLibraryShapes, read from
\* libraryLoader.isLibraryLoaded() when createSnaplex or createExecutionNode begins
checkLibraryAvailability == isLoaded

\* createExecutionNode without the try/catch around getShape
createExecutionNodeNoCatch(cache, c, node, x, y, r) ==
    LET shapeType == IF node.type = "JCC" THEN "jcc_node" ELSE "fm_node"
        got == getShape(cache, shapeType, x, y, r)
    IN  IF checkLibraryAvailability /\ got.threw
        THEN Outcome(TRUE, <<>>, got.cache, c)
        ELSE IF checkLibraryAvailability /\ Len(got.elements) > 0
        THEN Outcome(FALSE, got.elements \o createNodeIndicators(node, x, y), got.cache, c)
        ELSE Outcome(FALSE, createNodeElement(node, x, y, 40, c),
                     IF checkLibraryAvailability THEN got.cache ELSE cache, c + 2)

\* createExecutionNode(node, x, y), after checkLibraryAvailability(); cache and c are
\* the loader's cache and the generateIndex counter when the call is made
createExecutionNode(cache, c, node, x, y, r) ==
    LET shapeType == IF node.type = "JCC" THEN "jcc_node" ELSE "fm_node"
        got == getShape(cache, shapeType, x, y, r)
        basic == Outcome(FALSE, createNodeElement(node, x, y, 40, c),
                         IF checkLibraryAvailability THEN got.cache ELSE cache, c + 2)
    IN  IF checkLibraryAvailability /\ ~got.threw /\ Len(got.elements) > 0
        THEN Outcome(FALSE, got.elements \o createNodeIndicators(node, x, y), got.cache, c)
        ELSE basic

\* width || 350, height || 200
OrDefault(v, d) == IF v = 0 THEN d ELSE v

\* createSnaplex(snaplex, x, y, width, height), after checkLibraryAvailability()
createSnaplex(cache, c, snaplex, x, y, width, height, r) ==
    LET shapeType == IF snaplex.type = "cloudplex" THEN "cloudplex" ELSE "groundplex"
        got == getShape(cache, shapeType, x, y, r)
        basic == Outcome(FALSE,
                         createSnaplexElement(snaplex, x, y, OrDefault(width, 350),
                                              OrDefault(height, 200), c),
                         IF checkLibraryAvailability THEN got.cache ELSE cache, c + 2)
    IN  IF checkLibraryAvailability /\ ~got.threw /\ Len(got.elements) > 0
        THEN Outcome(FALSE, got.elements, got.cache, c)
        ELSE basic

\* ------------------------------------------------------------------------
\* excalidrawHelpers.ts: the generators of the other primitives
\* ------------------------------------------------------------------------
createEnvironmentElement(env, x, y, width, height, c) ==
    << El("env-" \o env.id, "rectangle", x, y, width, height, NoText, generateIndex(c)),
       El("label-" \o env.id, "text", x + 10, y + 10, 200, 25,
          env.name \o " (" \o env.type \o ")", generateIndex(c + 1)) >>

createEndpointElement(endpoint, x, y, width, height, c) ==
    << El("endpoint-" \o endpoint.id, "diamond", x, y, width, height, NoText,
          generateIndex(c)),
       El("label-endpoint-" \o endpoint.id, "text", x + (width \div 2) - 30,
          y + (height \div 2) - 10, 60, 20, endpoint.name, generateIndex(c + 1)) >>

createSnaplexContainer(snaplex, x, y, width, height, c) ==
    El("container-" \o snaplex.id, "rectangle", x, y, width, height, NoText,
       generateIndex(c))

createConnectionElement(connection, startX, startY, endX, endY, c) ==
    El("connection-" \o connection.id, "arrow", startX, startY, endX - startX,
       endY - startY, NoText, generateIndex(c))

\* ------------------------------------------------------------------------
\* excalidrawHelpers.ts: autoLayout
\* ------------------------------------------------------------------------
ENV_WIDTH == 1200
ENV_HEIGHT == 500
SNAPLEX_WIDTH == 450
SNAPLEX_HEIGHT == 300
NODE_SPACING == 80
SNAPLEX_MARGIN == 40
nodesPerRow == 5

Point(x, y) == [x |-> x, y |-> y]
Dim(width, height) == [width |-> width, height |-> height]

\* Map.set(key, value)
MapSet(map, key, value) == (key :> value) @@ map

\* Math.ceil(a / b) for a >= 0, b > 0
Ceil(a, b) == (a + b - 1) \div b

\* the forEach over snaplex.container.nodes; st carries positions, nodeX, nodeY
RECURSIVE layoutNodes(_, _, _, _)
layoutNodes(nodes, nIndex, nodeStartX, st) ==
    IF nIndex >= Len(nodes) THEN st
    ELSE LET newRow == nIndex > 0 /\ nIndex % nodesPerRow = 0
             nodeX == IF newRow THEN nodeStartX ELSE st.nodeX
             nodeY == IF newRow THEN st.nodeY + 70 ELSE st.nodeY
         IN  With([positions |-> MapSet(st.positions, "node-" \o nodes[nIndex + 1].id,
                                        Point(nodeX, nodeY)),
                   nodeX |-> nodeX + (NODE_SPACING - 10),
                   nodeY |-> nodeY],
                  LAMBDA next : layoutNodes(nodes, nIndex + 1, nodeStartX, next))

\* a cluster's height that ignores the rows of its nodes
actualSnaplexHeightFlat(nodeCount) == SNAPLEX_HEIGHT

\* the height of a cluster from the number of its nodes
actualSnaplexHeight(nodeCount) ==
    LET nodeRows == Ceil(nodeCount, nodesPerRow)
        calculatedSnaplexHeight ==
            SNAPLEX_HEIGHT + (IF nodeRows > 1 THEN (nodeRows - 1) * 70 ELSE 0)
    IN  Max(SNAPLEX_HEIGHT, calculatedSnaplexHeight)

\* one round of the forEach over env.snaplexes
layoutSnaplex(snaplex, snaplexY, st) ==
    LET snaplexX == st.snaplexX
        height == actualSnaplexHeight(Len(snaplex.container.nodes))
    IN  With(layoutNodes(snaplex.container.nodes, 0, snaplexX + 50,
                         [positions |-> MapSet(st.positions, "snaplex-" \o snaplex.id,
                                               Point(snaplexX, snaplexY)),
                          nodeX |-> snaplexX + 50,
                          nodeY |-> snaplexY + 220]),
             LAMBDA withNodes :
                 [positions |-> withNodes.positions,
                  envDimensions |-> MapSet(st.envDimensions, "snaplex-" \o snaplex.id,
                                           Dim(SNAPLEX_WIDTH, height)),
                  snaplexX |-> snaplexX + SNAPLEX_WIDTH + 30,
                  maxX |-> Max(st.maxX, snaplexX + SNAPLEX_WIDTH),
                  maxY |-> Max(st.maxY, snaplexY + height)])

\* the forEach over env.snaplexes; st carries positions, envDimensions, snaplexX,
\* maxX, maxY
RECURSIVE layoutSnaplexes(_, _, _, _)
layoutSnaplexes(snaplexes, sIndex, snaplexY, st) ==
    IF sIndex >= Len(snaplexes) THEN st
    ELSE With(layoutSnaplex(snaplexes[sIndex + 1], snaplexY, st),
              LAMBDA next : layoutSnaplexes(snaplexes, sIndex + 1, snaplexY, next))

\* an environment's dimension without the minimum
envDimensionUnclamped(maxX, maxY, currentX, currentY) ==
    Dim(maxX - currentX + SNAPLEX_MARGIN, maxY - currentY + 30)

\* actualWidth, actualHeight of an environment
envDimension(maxX, maxY, currentX, currentY) ==
    Dim(Max(ENV_WIDTH, maxX - currentX + SNAPLEX_MARGIN),
        Max(ENV_HEIGHT, maxY - currentY + 30))

\* the x of the next environment of a row, had every environment the minimum width
nextEnvironmentXMinimum(currentX, actualWidth) == currentX + ENV_WIDTH + 50

\* currentX += actualWidth + 50
nextEnvironmentX(currentX, actualWidth) == currentX + actualWidth + 50

\* the y of the next row, had every environment the minimum height
nextRowYMinimum(rowStartY, maxRowHeight) == rowStartY + ENV_HEIGHT + 100

\* currentY = rowStartY + maxRowHeight + 100
nextRowY(rowStartY, maxRowHeight) == rowStartY + maxRowHeight + 100

\* one round of the forEach over environments
layoutEnvironment(env, index, st) ==
    LET currentX == st.currentX
        currentY == st.currentY
    IN  With(layoutSnaplexes(env.snaplexes, 0, currentY + 80,
                             [positions |-> MapSet(st.positions, "env-" \o env.id,
                                                   Point(currentX, currentY)),
                              envDimensions |-> st.envDimensions,
                              snaplexX |-> currentX + SNAPLEX_MARGIN,
                              maxX |-> currentX,
                              maxY |-> currentY + 80]),
             LAMBDA inner :
                 LET actual == envDimension(inner.maxX, inner.maxY, currentX, currentY)
                     maxRowHeight == Max(st.maxRowHeight, actual.height)
                     endOfRow == (index + 1) % 2 = 0
                     nextY == nextRowY(st.rowStartY, maxRowHeight)
                 IN  [positions |-> inner.positions,
                      envDimensions |-> MapSet(inner.envDimensions, "env-" \o env.id, actual),
                      currentX |-> IF endOfRow THEN 50
                                   ELSE nextEnvironmentX(currentX, actual.width),
                      currentY |-> IF endOfRow THEN nextY ELSE currentY,
                      rowStartY |-> IF endOfRow THEN nextY ELSE st.rowStartY,
                      maxRowHeight |-> IF endOfRow THEN 0 ELSE maxRowHeight])

\* the forEach over environments; st carries positions, envDimensions, currentX,
\* currentY, rowStartY, maxRowHeight
RECURSIVE layoutEnvironments(_, _, _)
layoutEnvironments(envs, index, st) ==
    IF index >= Len(envs) THEN st
    ELSE With(layoutEnvironment(envs[index + 1], index, st),
              LAMBDA next : layoutEnvironments(envs, index + 1, next))

\* the forEach over endpoints
RECURSIVE layoutEndpoints(_, _, _, _)
layoutEndpoints(eps, index, currentY, map) ==
    IF index >= Len(eps) THEN map
    ELSE With(MapSet(map, "endpoint-" \o eps[index + 1].id,
                     Point(50 + (index * 200), currentY)),
              LAMBDA next : layoutEndpoints(eps, index + 1, currentY, next))

\* the y of the endpoints without the adjustment for an odd number of environments
endpointsYUnadjusted(count, st) == st.currentY + 50

\* the y of the endpoints: currentY after the final row adjustment, plus 50
endpointsY(count, st) ==
    (IF count % 2 = 1 THEN nextRowY(st.rowStartY, st.maxRowHeight) ELSE st.currentY) + 50

\* autoLayout started at (startX, startY)
layoutFrom(startX, startY, envs, eps) ==
    With(layoutEnvironments(envs, 0,
             [positions |-> <<>>, envDimensions |-> <<>>, currentX |-> startX,
              currentY |-> startY, rowStartY |-> startY, maxRowHeight |-> 0]),
         LAMBDA st :
             [positions |-> layoutEndpoints(eps, 0, endpointsY(Len(envs), st), st.positions),
              envDimensions |-> st.envDimensions])

\* an autoLayout that starts where the index counter of the generators stands
autoLayoutCounting(envs, eps) == layoutFrom(50 + counter, 50, envs, eps)

\* autoLayout(environments, endpoints)
autoLayout(envs, eps) == layoutFrom(50, 50, envs, eps)

\* ------------------------------------------------------------------------
\* App.tsx: generateExcalidrawElements
\* ------------------------------------------------------------------------
\* map.get(key) || fallback
GetOr(map, key, fallback) == IF key \in DOMAIN map THEN map[key] ELSE fallback

\* the pass so far: the elements pushed, the index counter, the loader's cache, and
\* whether a call threw
GenState(els, c, cache, t) == [elements |-> els, counter |-> c, cache |-> cache, threw |-> t]

\* elements.push(...shapeFactory.create*(...))
pushOutcome(st, out) ==
    IF out.threw
    THEN GenState(st.elements, out.counter, out.cache, TRUE)
    ELSE GenState(st.elements \o out.elements, out.counter, out.cache, FALSE)

\* the draws of Math.random() in the next create call of a pass
Draw(seed, st) == (seed * (MaxSceneIndex + 1)) + Len(st.elements)

\* elements.push(...shapeFactory.createExecutionNode(node, nPos.x, nPos.y))
generateNode(node, lay, seed, st) ==
    LET nPos == GetOr(lay.positions, "node-" \o node.id, Point(150, 150))
    IN  With(createExecutionNode(st.cache, st.counter, node, nPos.x, nPos.y, Draw(seed, st)),
             LAMBDA out : pushOutcome(st, out))

RECURSIVE generateNodes(_, _, _, _, _)
generateNodes(nodes, k, lay, seed, st) ==
    IF k > Len(nodes) \/ st.threw THEN st
    ELSE With(generateNode(nodes[k], lay, seed, st),
              LAMBDA next : generateNodes(nodes, k + 1, lay, seed, next))

\* the header shape of a cluster without its dashed container
generateSnaplexHeaderOnly(snaplex, lay, seed, st) ==
    LET sPos == GetOr(lay.positions, "snaplex-" \o snaplex.id, Point(100, 100))
        sDims == GetOr(lay.envDimensions, "snaplex-" \o snaplex.id, Dim(450, 300))
    IN  With(createSnaplex(st.cache, st.counter, snaplex, sPos.x + 30, sPos.y + 30,
                           sDims.width, sDims.height, Draw(seed, st)),
             LAMBDA out : pushOutcome(st, out))

\* the header shape and the dashed container of a cluster
generateSnaplex(snaplex, lay, seed, st) ==
    LET sPos == GetOr(lay.positions, "snaplex-" \o snaplex.id, Point(100, 100))
        sDims == GetOr(lay.envDimensions, "snaplex-" \o snaplex.id, Dim(450, 300))
    IN  With(createSnaplex(st.cache, st.counter, snaplex, sPos.x + 30, sPos.y + 30,
                           sDims.width, sDims.height, Draw(seed, st)),
             LAMBDA out :
                 IF out.threw THEN pushOutcome(st, out)
                 ELSE GenState(Append(st.elements \o out.elements,
                                      createSnaplexContainer(snaplex, sPos.x, sPos.y,
                                          sDims.width, sDims.height, out.counter)),
                               out.counter + 1, out.cache, FALSE))

RECURSIVE generateSnaplexes(_, _, _, _, _)
generateSnaplexes(snaplexes, j, lay, seed, st) ==
    IF j > Len(snaplexes) \/ st.threw THEN st
    ELSE With(generateSnaplex(snaplexes[j], lay, seed, st),
              LAMBDA container :
                  With(generateNodes(snaplexes[j].container.nodes, 1, lay, seed, container),
                       LAMBDA next : generateSnaplexes(snaplexes, j + 1, lay, seed, next)))

\* elements.push(...createEnvironmentElement(env, pos.x, pos.y, dims.width, dims.height))
generateEnvironment(env, lay, st) ==
    LET ePos == GetOr(lay.positions, "env-" \o env.id, Point(50, 50))
        eDims == GetOr(lay.envDimensions, "env-" \o env.id, Dim(1200, 500))
    IN  GenState(st.elements \o createEnvironmentElement(env, ePos.x, ePos.y, eDims.width,
                                                         eDims.height, st.counter),
                 st.counter + 2, st.cache, FALSE)

RECURSIVE generateEnvironments(_, _, _, _, _)
generateEnvironments(envs, i, lay, seed, st) ==
    IF i > Len(envs) \/ st.threw THEN st
    ELSE With(generateEnvironment(envs[i], lay, st),
              LAMBDA own :
                  With(generateSnaplexes(envs[i].snaplexes, 1, lay, seed, own),
                       LAMBDA next : generateEnvironments(envs, i + 1, lay, seed, next)))

RECURSIVE generateEndpoints(_, _, _, _)
generateEndpoints(eps, k, lay, st) ==
    IF k > Len(eps) \/ st.threw THEN st
    ELSE LET ePos == GetOr(lay.positions, "endpoint-" \o eps[k].id, Point(50, 400))
         IN  With(GenState(st.elements \o createEndpointElement(eps[k], ePos.x, ePos.y,
                                                                120, 60, st.counter),
                           st.counter + 2, st.cache, FALSE),
                  LAMBDA next : generateEndpoints(eps, k + 1, lay, next))

\* elements.push(createConnectionElement(conn, sourcePos.x, sourcePos.y, targetPos.x,
\* targetPos.y))
generateConnection(conn, lay, st) ==
    LET sourcePos == GetOr(lay.positions, conn.source, Point(0, 0))
        targetPos == GetOr(lay.positions, conn.target, Point(100, 100))
    IN  GenState(Append(st.elements,
                        createConnectionElement(conn, sourcePos.x, sourcePos.y,
                                                targetPos.x, targetPos.y, st.counter)),
                 st.counter + 1, st.cache, FALSE)

\* a connections loop that skips a connection whose source has no position
RECURSIVE generateConnectionsResolved(_, _, _, _)
generateConnectionsResolved(conns, k, lay, st) ==
    IF k > Len(conns) \/ st.threw THEN st
    ELSE With(IF conns[k].source \in DOMAIN lay.positions
              THEN generateConnection(conns[k], lay, st) ELSE st,
              LAMBDA next : generateConnectionsResolved(conns, k + 1, lay, next))

\* connections.forEach(conn => elements.push(createConnectionElement(...)))
RECURSIVE generateConnections(_, _, _, _)
generateConnections(conns, k, lay, st) ==
    IF k > Len(conns) \/ st.threw THEN st
    ELSE With(generateConnection(conns[k], lay, st),
              LAMBDA next : generateConnections(conns, k + 1, lay, next))

\* the pass over a computed layout
generateWith(lay, envs, eps, conns, c, cache, seed) ==
    With(generateEnvironments(envs, 1, lay, seed, GenState(<<>>, c, cache, FALSE)),
         LAMBDA afterEnvs :
             With(generateEndpoints(eps, 1, lay, afterEnvs),
                  LAMBDA afterEndpoints : generateConnections(conns, 1, lay, afterEndpoints)))

\* generateExcalidrawElements(); c and cache are the index counter and the loader's
\* cache when the pass starts, seed stands for the draws of Math.random() in the pass;
\* the value carries the elements returned and the maps autoLayout gave the pass
generateExcalidrawElements(envs, eps, conns, c, cache, seed) ==
    With(autoLayout(envs, eps),
         LAMBDA lay :
             With(generateWith(lay, envs, eps, conns, c, cache, seed),
                  LAMBDA st : [elements |-> st.elements, counter |-> st.counter,
                               cache |-> st.cache, threw |-> st.threw,
                               positions |-> lay.positions,
                               envDimensions |-> lay.envDimensions]))

\* ------------------------------------------------------------------------
\* documentationGenerator.ts: text elements, tables, the groupings of a report
\* (x and widths are in pixels; y and heights are in tenths of a pixel, so that the
\* line-height factor 1.4 is the integer 14)
\* ------------------------------------------------------------------------
\* the characters of a string literal
Chars(s) == [i \in 1..Len(s) |-> SubSeq(s, i, i)]

\* baseTextStyle.lineHeight: 1.4
LineHeight == 14

standardTextStyle == [fontSize |-> 12, lineHeight |-> LineHeight]

tableTextStyle == [fontSize |-> 11, lineHeight |-> LineHeight]

\* the gap of 10 pixels that follows a chunk when there are several
ChunkGap == 100

\* the maxLinesPerChunk that createTextElements passes to chunkText
DocLinesPerChunk == 15

\* TextUtils.getCharactersPerLine: Math.floor(maxWidth / (fontSize * 0.6))
getCharactersPerLine(fontSize, maxWidth) == (maxWidth * 10) \div (fontSize * 6)

\* TextUtils.calculateTextHeight: lines * fontSize * lineHeight
calculateTextHeight(t, fontSize, lineHeight) == Len(split(t, NL)) * fontSize * lineHeight

\* generateId() of the documentation generator: `doc-${random}`; r names the draw
docGenerateId(r) == "doc-" \o ToStr(r)

\* chunks.forEach of createTextElements; st carries elements, currentY, totalHeight
RECURSIVE stackChunks(_, _, _, _, _, _)
stackChunks(chunkList, index, x, maxWidth, style, st) ==
    IF index > Len(chunkList) THEN st
    ELSE LET chunk == chunkList[index]
             chunkHeight == calculateTextHeight(chunk, style.fontSize, style.lineHeight)
             gap == IF Len(chunkList) > 1 THEN ChunkGap ELSE 0
         IN  With([elements |-> Append(st.elements,
                                       El(docGenerateId(index), "text", x, st.currentY,
                                          maxWidth, chunkHeight, chunk, RandomIndex)),
                   currentY |-> st.currentY + chunkHeight + gap,
                   totalHeight |-> st.totalHeight + chunkHeight + gap],
                  LAMBDA next : stackChunks(chunkList, index + 1, x, maxWidth, style, next))

\* createTextElements(text, x, y, maxWidth, style)
createTextElements(t, x, y, maxWidth, style) ==
    With(chunkText(t, getCharactersPerLine(style.fontSize, maxWidth), DocLinesPerChunk),
         LAMBDA chunkList :
             With(stackChunks(chunkList, 1, x, maxWidth, style,
                              [elements |-> <<>>, currentY |-> y, totalHeight |-> 0]),
                  LAMBDA st : [elements |-> st.elements, totalHeight |-> st.totalHeight,
                               chunks |-> chunkList]))

\* createTextElement(text, x, y, maxWidth, style): result.elements[0]
createTextElement(t, x, y, maxWidth, style) ==
    createTextElements(t, x, y, maxWidth, style).elements[1]

\* String.prototype.padEnd(width) and String.prototype.repeat(n)
padEnd(str, width) == str \o [i \in 1..(width - Len(str)) |-> SP]

repeat(ch, n) == [i \in 1..n |-> ch]

\* Array.prototype.join(sep) for a separator of several characters
RECURSIVE joinWith(_, _)
joinWith(parts, sep) ==
    IF Len(parts) = 0 THEN <<>>
    ELSE IF Len(parts) = 1 THEN parts[1]
    ELSE With(Len(parts) \div 2,
              LAMBDA h : joinWith(SubSeq(parts, 1, h), sep) \o sep
                         \o joinWith(SubSeq(parts, h + 1, Len(parts)), sep))

\* a cell value is a string, a boolean or undefined
StringValue(str) == [kind |-> "string", s |-> str, b |-> FALSE]
BooleanValue(b) == [kind |-> "boolean", s |-> <<>>, b |-> b]
Undefined == [kind |-> "undefined", s |-> <<>>, b |-> FALSE]

\* value ? ... : ...
Truthy(value) == IF value.kind = "boolean" THEN value.b ELSE value.s # <<>>

\* value === undefined || value === null || value === ''
Blank(value) ==
    value.kind = "undefined" \/ (value.kind = "string" /\ value.s = <<>>)

\* String(value)
String(value) ==
    IF value.kind = "string" THEN value.s
    ELSE IF value.kind = "boolean" THEN (IF value.b THEN Chars("true") ELSE Chars("false"))
    ELSE Chars("undefined")

\* the cell of a data row under a column: formatted, truncated, padded
formatCell(col, value) ==
    LET shown == IF col.format = "boolean"
                 THEN (IF Truthy(value) THEN Chars("Yes") ELSE Chars("No"))
                 ELSE IF Blank(value)
                      THEN (IF col.default # <<>> THEN col.default ELSE Chars("[unknown]"))
                      ELSE String(value)
        cellValue == IF Len(shown) > col.width
                     THEN substring0(shown, col.width - 3) \o Ellipsis
                     ELSE shown
    IN  padEnd(cellValue, col.width)

\* the separator of two cells of a row
CellSeparator == <<SP, SP>>

\* the character of the rule under the header (U+2500 in the source)
Rule == "-"

headerRow(columns) ==
    joinWith([c \in 1..Len(columns) |-> padEnd(columns[c].label, columns[c].width)],
             CellSeparator)

rowText(row, columns) ==
    joinWith([c \in 1..Len(columns) |-> formatCell(columns[c], row[columns[c].key])],
             CellSeparator)

placeholderCount(data, columns) ==
    Cardinality({<<r, c>> \in (1..Len(data)) \X (1..Len(columns)) :
                    Blank(data[r][columns[c].key])})

\* the text the data.forEach adds for the rows r..last, a newline after each
RECURSIVE rowLines(_, _, _, _)
rowLines(data, columns, r, last) ==
    IF r > last THEN <<>>
    ELSE IF r = last THEN rowText(data[r], columns) \o <<NL>>
    ELSE rowLines(data, columns, r, (r + last) \div 2)
         \o rowLines(data, columns, ((r + last) \div 2) + 1, last)

PlaceholderNote ==
    Chars("Note: Fields marked as [unknown] or [to be completed] require additional data collection.")

\* the tableText that createTable builds
tableText(data, columns) ==
    headerRow(columns) \o <<NL>>
    \o repeat(Rule, Len(headerRow(columns))) \o <<NL>>
    \o rowLines(data, columns, 1, Len(data))
    \o (IF Len(data) = 0 THEN Chars("[No data available]") \o <<NL>> ELSE <<>>)
    \o (IF placeholderCount(data, columns) > 0
        THEN <<NL>> \o PlaceholderNote \o <<NL>> ELSE <<>>)

\* createTable(data, columns, x, y, width)
createTable(data, columns, x, y, width) ==
    With(tableText(data, columns),
         LAMBDA t :
             [element |-> createTextElement(t, x, y, width, tableTextStyle),
              height |-> calculateTextHeight(t, tableTextStyle.fontSize,
                                             tableTextStyle.lineHeight)])

\* allElements.filter((_, i) => i >= from && i < to), i counting from 0
filterIndex(allElements, from, to) == SubSeq(allElements, from + 1, Min(to, Len(allElements)))

\* the return statement of generateDocumentationElements over allElements
groupElements(allElements) ==
    LET n == Len(allElements)
    IN  [architectureOverview |->
             IF n > 0 THEN allElements[1]
             ELSE createTextElement(<<>>, 0, 0, 0, standardTextStyle),
         nodeInventoryTable |-> filterIndex(allElements, 1, n \div 3),
         environmentDetails |-> filterIndex(allElements, n \div 3, (2 * n) \div 3),
         decisionRecords |-> filterIndex(allElements, (2 * n) \div 3, n)]

\* ------------------------------------------------------------------------
\* The store, the layout maps and the scene before anything was added
\* ------------------------------------------------------------------------
\* new Date() at the time the clock shows n
Date(n) == [date |-> n]

InitialMetadata ==
    [title |-> "SnapLogic Architecture", createdAt |-> Date(0), updatedAt |-> Date(0)]

NoSelection == "null"

NoExport == [kind |-> "none"]

\* the fields of the store the operations on its lists leave alone, and the caller of
\* exportState() before any call
PersistIdle ==
    /\ metadata = InitialMetadata
    /\ selectedItemId = NoSelection
    /\ architectureDescription = ""
    /\ exported = NoExport
    /\ exportedAt = NoExport

\* metadata: { ...state.metadata, updatedAt: new Date() }, the part of its state every
\* operation on the store's lists writes besides the list
StoreTouched ==
    /\ metadata' = [metadata EXCEPT !.updatedAt = Date(now)]
    /\ UNCHANGED <<selectedItemId, architectureDescription, persistVars>>

StoreIdle ==
    /\ environments = <<>>
    /\ endpoints = <<>>
    /\ connections = <<>>
    /\ positions = <<>>
    /\ envDimensions = <<>>

\* ---- the loader and shape factory state machine ----
NoCall == [op |-> "none"]

\* loadPromise: Promise<void> | null = null
NoPromise == 0

\* where loadLibrary() stands when initialize() is handed its promise: waiting on the
\* fetch, or already rejected because fetch(...) itself threw before the first await
\* and the catch block has run
LoadStarts == {"pending", "rejected"}

StartLoad(states, start) ==
    [loadPromise |-> Len(states) + 1, loadState |-> Append(states, start),
     returned |-> Len(states) + 1]

\* initialize() that starts a load whatever loadPromise and isLoaded are
initializeAlways(promise, loaded, states, start) == StartLoad(states, start)

\* initialize(): the new loadPromise, the loads, and the load the caller waits on
initialize(promise, loaded, states, start) ==
    IF promise # NoPromise
    THEN [loadPromise |-> promise, loadState |-> states, returned |-> promise]
    ELSE IF loaded
    THEN [loadPromise |-> promise, loadState |-> states, returned |-> NoPromise]
    ELSE StartLoad(states, start)

\* the catalog of a library whose libraryItems could not be indexed
NoItems == [t \in ShapeTypes |-> "absent"]

\* libraryManager.isLoaded()
libraryManagerIsLoaded == library # NoLibrary

Pending(i) == i \in 1..Len(loadState) /\ loadState[i] = "pending"

ShapeIdle ==
    /\ isLoaded = FALSE
    /\ loadPromise = NoPromise
    /\ loadState = <<>>
    /\ libraryCache = <<>>
    /\ library = NoLibrary
    /\ useLibraryShapes = FALSE
    /\ counter = 1
    /\ lastCall = NoCall
    /\ result = <<>>
    /\ threw = FALSE

ClockIdle == now = 0

NotReturned == [done |-> FALSE]

DocIdle ==
    /\ docCall = NoCall
    /\ docReturn = NotReturned

TextIdle ==
    /\ DocIdle
    /\ text = <<>>
    /\ maxCharsPerLine = MinCharsBound
    /\ maxLinesPerChunk = 1
    /\ chunks = <<>>
    /\ wrapInput = <<>>
    /\ wrapped = <<>>
    /\ textPc = "idle"

ShapeInit == ShapeIdle /\ TextIdle /\ StoreIdle /\ ClockIdle /\ PersistIdle

\* libraryLoader.initialize()
Initialize ==
    /\ \E start \in LoadStarts :
          \E out \in {initialize(loadPromise, isLoaded, loadState, start)} :
             /\ Len(out.loadState) <= MaxLoads
             /\ loadPromise' = out.loadPromise
             /\ loadState' = out.loadState
             /\ lastCall' = [op |-> "initialize", returned |-> out.returned]
    /\ result' = <<>>
    /\ threw' = FALSE
    /\ UNCHANGED <<isLoaded, libraryCache, library, useLibraryShapes, counter>>
    /\ UNCHANGED <<textVars, modelVars>>

\* a loadLibrary() that sets isLoaded without waiting for the library manager
LoadSucceedsUnparsed ==
    /\ \E i \in 1..Len(loadState) :
          /\ Pending(i)
          /\ loadState' = [loadState EXCEPT ![i] = "fulfilled"]
    /\ isLoaded' = TRUE
    /\ UNCHANGED <<loadPromise, libraryCache, library, useLibraryShapes, counter,
                   lastCall, result, threw>>
    /\ UNCHANGED <<textVars, modelVars>>

\* loadLibrary() runs to its end: the catalog is fetched, parsed and indexed
LoadSucceeds ==
    /\ \E i \in 1..Len(loadState) :
          /\ Pending(i)
          /\ loadState' = [loadState EXCEPT ![i] = "fulfilled"]
    /\ \E catalog \in Catalogs : library' = catalog
    /\ isLoaded' = TRUE
    /\ UNCHANGED <<loadPromise, libraryCache, useLibraryShapes, counter, lastCall,
                   result, threw>>
    /\ UNCHANGED <<textVars, modelVars>>

\* loadLibrary() fails after its first await (fetch rejects, the response is not ok,
\* or the content is no library): the catch block clears loadPromise and rethrows; the
\* library manager keeps the parsed file when only the indexing of its items threw
LoadFails ==
    /\ \E i \in 1..Len(loadState) :
          /\ Pending(i)
          /\ loadState' = [loadState EXCEPT ![i] = "rejected"]
    /\ loadPromise' = NoPromise
    /\ library' \in {library, NoItems}
    /\ UNCHANGED <<isLoaded, libraryCache, useLibraryShapes, counter, lastCall,
                   result, threw>>
    /\ UNCHANGED <<textVars, modelVars>>

\* the continuation of initialize() at startup and in reloadLibrary()
CheckLibraryAvailability ==
    /\ \E i \in 1..Len(loadState) : loadState[i] = "fulfilled"
    /\ useLibraryShapes' = checkLibraryAvailability
    /\ UNCHANGED <<isLoaded, loadPromise, loadState, libraryCache, library, counter,
                   lastCall, result, threw>>
    /\ UNCHANGED <<textVars, modelVars>>

\* Math.random() is drawn only when a library item is cloned
Draws == IF isLoaded THEN 1..MaxRand ELSE {1}

CacheHasRoom(type, x, y) ==
    \/ cacheKey(type, x, y) \in DOMAIN libraryCache
    \/ Cardinality(DOMAIN libraryCache) < MaxCacheSize

\* libraryLoader.getShape(type, x, y)
GetShapeOf(type, p, r) ==
    /\ CacheHasRoom(type, p[1], p[2])
    /\ LET got == getShape(libraryCache, type, p[1], p[2], r)
       IN  /\ result' = got.elements
           /\ threw' = got.threw
           /\ libraryCache' = got.cache
    /\ lastCall' = [op |-> "getShape", type |-> type, x |-> p[1], y |-> p[2], r |-> r]
    /\ UNCHANGED <<isLoaded, loadPromise, loadState, library, useLibraryShapes, counter>>
    /\ UNCHANGED <<textVars, modelVars>>

GetShape == \E type \in ShapeTypes, p \in Points, r \in Draws : GetShapeOf(type, p, r)

\* libraryLoader.clearCache()
ClearCache ==
    /\ libraryCache' = <<>>
    /\ lastCall' = [op |-> "clearCache"]
    /\ result' = <<>>
    /\ threw' = FALSE
    /\ UNCHANGED <<isLoaded, loadPromise, loadState, library, useLibraryShapes, counter>>
    /\ UNCHANGED <<textVars, modelVars>>

NodeShapeType(node) == IF node.type = "JCC" THEN "jcc_node" ELSE "fm_node"

\* shapeFactory.createExecutionNode(node, x, y)
CreateExecutionNodeOf(node, p, r) ==
    /\ CacheHasRoom(NodeShapeType(node), p[1], p[2])
    /\ useLibraryShapes' = checkLibraryAvailability
    /\ LET out == createExecutionNode(libraryCache, counter, node, p[1], p[2], r)
       IN  /\ out.counter <= MaxCounter
           /\ result' = out.elements
           /\ threw' = out.threw
           /\ libraryCache' = out.cache
           /\ counter' = out.counter
    /\ lastCall' = [op |-> "createExecutionNode", node |-> node, x |-> p[1],
                    y |-> p[2], r |-> r]
    /\ UNCHANGED <<isLoaded, loadPromise, loadState, library>>
    /\ UNCHANGED <<textVars, modelVars>>

CreateExecutionNode ==
    \E node \in Nodes, p \in Points, r \in Draws : CreateExecutionNodeOf(node, p, r)

\* shapeFactory.createSnaplex(snaplex, x, y, width, height)
CreateSnaplexOf(snaplex, p, wh, r) ==
    /\ CacheHasRoom(snaplex.type, p[1], p[2])
    /\ useLibraryShapes' = checkLibraryAvailability
    /\ LET out == createSnaplex(libraryCache, counter, snaplex, p[1], p[2], wh[1], wh[2], r)
       IN  /\ out.counter <= MaxCounter
           /\ result' = out.elements
           /\ threw' = out.threw
           /\ libraryCache' = out.cache
           /\ counter' = out.counter
    /\ lastCall' = [op |-> "createSnaplex", snaplex |-> snaplex, x |-> p[1],
                    y |-> p[2], width |-> wh[1], height |-> wh[2], r |-> r]
    /\ UNCHANGED <<isLoaded, loadPromise, loadState, library>>
    /\ UNCHANGED <<textVars, modelVars>>

CreateSnaplex ==
    \E snaplex \in Snaplexes, p \in Points, wh \in SnaplexSizes, r \in Draws :
       CreateSnaplexOf(snaplex, p, wh, r)

RenderingModes == {"library", "basic"}

\* shapeFactory.getRenderingMode()
getRenderingMode == IF useLibraryShapes THEN "library" ELSE "basic"

\* shapeFactory.forceRenderingMode(mode)
ForceRenderingMode ==
    /\ \E mode \in RenderingModes :
          /\ useLibraryShapes' = (mode = "library")
          /\ lastCall' = [op |-> "forceRenderingMode", mode |-> mode]
    /\ result' = <<>>
    /\ threw' = FALSE
    /\ UNCHANGED <<isLoaded, loadPromise, loadState, libraryCache, library, counter>>
    /\ UNCHANGED <<textVars, modelVars>>

ShapeNext ==
    \/ Initialize
    \/ LoadSucceeds
    \/ LoadFails
    \/ CheckLibraryAvailability
    \/ GetShape
    \/ ClearCache
    \/ CreateExecutionNode
    \/ CreateSnaplex
    \/ ForceRenderingMode

SpecShape == ShapeInit /\ [][ShapeNext]_vars


\* ------------------------------------------------------------------------
\* Shape factory and loader: the statements checked
\* ------------------------------------------------------------------------
CountIds(els, id, type) ==
    Cardinality({k \in 1..Len(els) : els[k].id = id /\ els[k].type = type})

NeedsIndicator(node) ==
    node.size # "medium" \/ (node.memoryOptimized /\ node.type = "JCC")

\* C1 (as claimed): under either strategy createExecutionNode returns exactly one
\* indicator badge (one badge rectangle and one badge text) when the node's size is
\* not medium or it is a memory-optimized JCC node, and none otherwise; the badge of
\* a memory-optimized 2XL JCC node reads "mo-2XL".
C1_OneIndicatorBadge ==
    (lastCall.op = "createExecutionNode" /\ ~threw) =>
       LET node == lastCall.node
           badges == IF NeedsIndicator(node) THEN 1 ELSE 0
       IN  /\ CountIds(result, "indicator-bg-" \o node.id, "rectangle") = badges
           /\ CountIds(result, "indicator-text-" \o node.id, "text") = badges
           /\ (node.size = "2XL" /\ node.memoryOptimized /\ node.type = "JCC") =>
                 \E k \in 1..Len(result) :
                    /\ result[k].id = "indicator-text-" \o node.id
                    /\ result[k].text = "mo-2XL"

\* the provider is unavailable, throws, or returns an empty list
ProviderFails(type, x, y, r) ==
    \/ ~isLoaded
    \/ getShape(libraryCache, type, x, y, r).threw
    \/ getShape(libraryCache, type, x, y, r).elements = <<>>

\* C5: in every state of the loader createSnaplex and createExecutionNode return a
\* non-empty list and do not throw, and when the provider is unavailable, throws or
\* returns an empty list the result is exactly the built-in generator's output.
C5_FallbackNeverThrows ==
    [][ LET call == lastCall'
        IN  /\ (/\ call.op = "createExecutionNode"
                /\ CreateExecutionNodeOf(call.node, <<call.x, call.y>>, call.r)) =>
                   /\ ~threw'
                   /\ Len(result') > 0
                   /\ ProviderFails(NodeShapeType(call.node), call.x, call.y, call.r) =>
                         result' = createNodeElement(call.node, call.x, call.y, 40, counter)
            /\ (/\ call.op = "createSnaplex"
                /\ CreateSnaplexOf(call.snaplex, <<call.x, call.y>>,
                                   <<call.width, call.height>>, call.r)) =>
                   /\ ~threw'
                   /\ Len(result') > 0
                   /\ ProviderFails(call.snaplex.type, call.x, call.y, call.r) =>
                         result' = createSnaplexElement(call.snaplex, call.x, call.y,
                                                        OrDefault(call.width, 350),
                                                        OrDefault(call.height, 200), counter)
      ]_vars

\* C5 witness: a create call made with the library loaded whose catalog gave nothing
\* for the requested type (the empty answer is in the cache) returned the built-in
\* ellipse and label
C5_Witness ==
    /\ lastCall.op = "createExecutionNode"
    /\ isLoaded
    /\ cacheKey(NodeShapeType(lastCall.node), lastCall.x, lastCall.y) \in DOMAIN libraryCache
    /\ libraryCache[cacheKey(NodeShapeType(lastCall.node), lastCall.x, lastCall.y)] = <<>>
    /\ ~threw
    /\ Len(result) = 2
    /\ result[1].id = "node-" \o lastCall.node.id

\* C6 (as claimed): the cache does not affect output: whatever getShape and clearCache
\* calls came before, getShape(type, x, y) on a loaded library returns what it would
\* return with an empty cache, a fresh cloneLibraryItem(type, x, y), element ids included.
C6_CacheTransparent ==
    [][ LET call == lastCall'
        IN  (/\ call.op = "getShape"
             /\ GetShapeOf(call.type, <<call.x, call.y>>, call.r)
             /\ isLoaded
             /\ ~threw') =>
                result' = cloneLibraryItem(library, call.type, call.x, call.y, call.r).elements
      ]_vars

\* ------------------------------------------------------------------------
\* The architecture store with the scene the App regenerates from it
\* (architectureStore.ts; App.tsx regenerates the scene in an effect after every
\* change of environments, endpoints or connections)
\* ------------------------------------------------------------------------
EnvIds == {"e1", "e2"}
SnaplexIds == {"s1"}
NodeIds == {"n1"}
EndpointIds == {"p1"}
ConnectionIds == {"c1", "c2"}

\* what a connection names as its source and as its target, in the form of the
\* mock data: `snaplex-${id}` and `endpoint-${id}`
ConnectionSources == {"snaplex-s1"}
ConnectionTargets == {"endpoint-p1"}

Env(id) == [id |-> id, name |-> "env", type |-> "production", snaplexes |-> <<>>]

Snaplex(id) == [id |-> id, name |-> "plex-1", type |-> "cloudplex",
                container |-> [nodes |-> <<>>]]

Node(id, type) == [id |-> id, name |-> "node-1", type |-> type, size |-> "medium",
                   memoryOptimized |-> FALSE]

Endpoint(id) == [id |-> id, name |-> "api", type |-> "rest"]

Connection(id, source, target) ==
    [id |-> id, source |-> source, target |-> target, type |-> "data-flow"]

\* Array.prototype.map and Array.prototype.filter
MapSeq(seq, F(_)) == [k \in 1..Len(seq) |-> F(seq[k])]
FilterSeq(seq, Keep(_)) == SelectSeq(seq, Keep)

\* the effect of App.tsx: one element-generation pass over the new store state
\* (Math.random() is drawn only when a library shape is cloned)
Pass(op, cap, envs, eps, conns) ==
    \E seed \in Draws :
       \E out \in {generateExcalidrawElements(envs, eps, conns, counter, libraryCache, seed)} :
          /\ out.counter <= cap
          /\ positions' = out.positions
          /\ envDimensions' = out.envDimensions
          /\ result' = out.elements
          /\ threw' = out.threw
          /\ counter' = out.counter
          /\ libraryCache' = out.cache
          /\ useLibraryShapes' = IF \E i \in 1..Len(envs) : Len(envs[i].snaplexes) > 0
                                 THEN checkLibraryAvailability ELSE useLibraryShapes
          /\ lastCall' = [op |-> op]
          /\ UNCHANGED <<isLoaded, loadPromise, loadState, library>>
          /\ UNCHANGED textVars

\* a store operation called directly, followed by that pass; no clock is read
Render(op, envs, eps, conns) ==
    Pass(op, MaxSceneIndex, envs, eps, conns) /\ StoreTouched /\ UNCHANGED clockVars

addEnvironment(envs, env) == Append(envs, env)

removeEnvironment(envs, id) == FilterSeq(envs, LAMBDA env : env.id # id)

addSnaplex(envs, envId, snaplex) ==
    MapSeq(envs, LAMBDA env : IF env.id = envId
                              THEN [env EXCEPT !.snaplexes = Append(@, snaplex)]
                              ELSE env)

\* a removeSnaplex that takes the cluster out of every environment
removeSnaplexEverywhere(envs, envId, snaplexId) ==
    MapSeq(envs, LAMBDA env : [env EXCEPT !.snaplexes =
                                   FilterSeq(@, LAMBDA s : s.id # snaplexId)])

removeSnaplex(envs, envId, snaplexId) ==
    MapSeq(envs, LAMBDA env : IF env.id = envId
                              THEN [env EXCEPT !.snaplexes =
                                        FilterSeq(@, LAMBDA s : s.id # snaplexId)]
                              ELSE env)

addExecutionNode(envs, envId, snaplexId, node) ==
    MapSeq(envs, LAMBDA env :
        IF env.id = envId
        THEN [env EXCEPT !.snaplexes =
                 MapSeq(@, LAMBDA s : IF s.id = snaplexId
                                      THEN [s EXCEPT !.container.nodes = Append(@, node)]
                                      ELSE s)]
        ELSE env)

removeExecutionNode(envs, envId, snaplexId, nodeId) ==
    MapSeq(envs, LAMBDA env :
        IF env.id = envId
        THEN [env EXCEPT !.snaplexes =
                 MapSeq(@, LAMBDA s :
                     IF s.id = snaplexId
                     THEN [s EXCEPT !.container.nodes =
                              FilterSeq(@, LAMBDA n : n.id # nodeId)]
                     ELSE s)]
        ELSE env)

\* the lists stay within the bounds of the model
WithinBounds(envs) ==
    /\ Len(envs) <= MaxEnvs
    /\ \A i \in 1..Len(envs) :
          /\ Len(envs[i].snaplexes) <= MaxSnaplexes
          /\ \A j \in 1..Len(envs[i].snaplexes) :
                Len(envs[i].snaplexes[j].container.nodes) <= MaxNodes

AddEnvironment ==
    \E id \in EnvIds :
       /\ WithinBounds(addEnvironment(environments, Env(id)))
       /\ environments' = addEnvironment(environments, Env(id))
       /\ UNCHANGED <<endpoints, connections>>
       /\ Render("addEnvironment", environments', endpoints, connections)

RemoveEnvironmentOf(id) ==
    /\ environments' = removeEnvironment(environments, id)
    /\ UNCHANGED <<endpoints, connections>>
    /\ Render("removeEnvironment", environments', endpoints, connections)

RemoveEnvironment == \E id \in EnvIds : RemoveEnvironmentOf(id)

AddSnaplex ==
    \E envId \in EnvIds, id \in SnaplexIds :
       /\ WithinBounds(addSnaplex(environments, envId, Snaplex(id)))
       /\ environments' = addSnaplex(environments, envId, Snaplex(id))
       /\ UNCHANGED <<endpoints, connections>>
       /\ Render("addSnaplex", environments', endpoints, connections)

RemoveSnaplexOf(envId, id) ==
    /\ environments' = removeSnaplex(environments, envId, id)
    /\ UNCHANGED <<endpoints, connections>>
    /\ Render("removeSnaplex", environments', endpoints, connections)

RemoveSnaplex == \E envId \in EnvIds, id \in SnaplexIds : RemoveSnaplexOf(envId, id)

AddExecutionNode ==
    \E envId \in EnvIds, snaplexId \in SnaplexIds, id \in NodeIds, type \in NodeTypes :
       /\ WithinBounds(addExecutionNode(environments, envId, snaplexId, Node(id, type)))
       /\ environments' = addExecutionNode(environments, envId, snaplexId, Node(id, type))
       /\ UNCHANGED <<endpoints, connections>>
       /\ Render("addExecutionNode", environments', endpoints, connections)

RemoveExecutionNodeOf(envId, snaplexId, id) ==
    /\ environments' = removeExecutionNode(environments, envId, snaplexId, id)
    /\ UNCHANGED <<endpoints, connections>>
    /\ Render("removeExecutionNode", environments', endpoints, connections)

RemoveExecutionNode ==
    \E envId \in EnvIds, snaplexId \in SnaplexIds, id \in NodeIds :
       RemoveExecutionNodeOf(envId, snaplexId, id)

AddEndpoint ==
    \E id \in EndpointIds :
       /\ Len(endpoints) < MaxEndpoints
       /\ endpoints' = Append(endpoints, Endpoint(id))
       /\ UNCHANGED <<environments, connections>>
       /\ Render("addEndpoint", environments, endpoints', connections)

RemoveEndpointOf(id) ==
    /\ endpoints' = FilterSeq(endpoints, LAMBDA ep : ep.id # id)
    /\ UNCHANGED <<environments, connections>>
    /\ Render("removeEndpoint", environments, endpoints', connections)

RemoveEndpoint == \E id \in EndpointIds : RemoveEndpointOf(id)

AddConnection ==
    \E id \in ConnectionIds, source \in ConnectionSources, target \in ConnectionTargets :
       /\ Len(connections) < MaxConnections
       /\ connections' = Append(connections, Connection(id, source, target))
       /\ UNCHANGED <<environments, endpoints>>
       /\ Render("addConnection", environments, endpoints, connections')

RemoveConnection ==
    \E id \in ConnectionIds :
       /\ connections' = FilterSeq(connections, LAMBDA c : c.id # id)
       /\ UNCHANGED <<environments, endpoints>>
       /\ Render("removeConnection", environments, endpoints, connections')

Init == ShapeIdle /\ TextIdle /\ StoreIdle /\ ClockIdle /\ PersistIdle

Next ==
    \/ AddEnvironment
    \/ RemoveEnvironment
    \/ AddSnaplex
    \/ RemoveSnaplex
    \/ AddExecutionNode
    \/ RemoveExecutionNode
    \/ AddEndpoint
    \/ RemoveEndpoint
    \/ AddConnection
    \/ RemoveConnection

Spec == Init /\ [][Next]_vars

\* the list after holds the elements of the list before whose id is not the target, in
\* the order they had, and nothing else
KeptExcept(before, after, id) ==
    LET kept == {k \in 1..Len(before) : before[k].id # id}
        place(k) == Cardinality({m \in kept : m <= k})
    IN  /\ Len(after) = Cardinality(kept)
        /\ \A k \in kept : after[place(k)] = before[k]

\* of the fields outside the three lists only metadata.updatedAt may have changed
OnlyStamped ==
    /\ selectedItemId' = selectedItemId
    /\ architectureDescription' = architectureDescription
    /\ metadata' = [metadata EXCEPT !.updatedAt = metadata'.updatedAt]

\* what a remove operation may change, for every remove operation and target
RemoveFrame ==
    /\ \A id \in EnvIds :
       RemoveEnvironmentOf(id) =>
          /\ connections' = connections /\ endpoints' = endpoints /\ OnlyStamped
          /\ KeptExcept(environments, environments', id)
    /\ \A envId \in EnvIds, id \in SnaplexIds :
          RemoveSnaplexOf(envId, id) =>
             /\ connections' = connections /\ endpoints' = endpoints /\ OnlyStamped
             /\ Len(environments') = Len(environments)
             /\ \A i \in 1..Len(environments) :
                   IF environments[i].id = envId
                   THEN /\ environments'[i] =
                              [environments[i] EXCEPT
                                  !.snaplexes = environments'[i].snaplexes]
                        /\ KeptExcept(environments[i].snaplexes,
                                      environments'[i].snaplexes, id)
                   ELSE environments'[i] = environments[i]
    /\ \A envId \in EnvIds, snaplexId \in SnaplexIds, id \in NodeIds :
          RemoveExecutionNodeOf(envId, snaplexId, id) =>
             /\ connections' = connections /\ endpoints' = endpoints /\ OnlyStamped
             /\ Len(environments') = Len(environments)
             /\ \A i \in 1..Len(environments) :
                   /\ environments'[i] =
                         [environments[i] EXCEPT
                             !.snaplexes = environments'[i].snaplexes]
                   /\ Len(environments'[i].snaplexes)
                         = Len(environments[i].snaplexes)
                   /\ \A j \in 1..Len(environments[i].snaplexes) :
                         LET s == environments[i].snaplexes[j]
                             t == environments'[i].snaplexes[j]
                         IN  IF environments[i].id = envId /\ s.id = snaplexId
                             THEN /\ t = [s EXCEPT !.container.nodes =
                                                      t.container.nodes]
                                  /\ KeptExcept(s.container.nodes,
                                                t.container.nodes, id)
                             ELSE t = s
    /\ \A id \in EndpointIds :
          RemoveEndpointOf(id) =>
             /\ connections' = connections /\ environments' = environments
             /\ OnlyStamped
             /\ KeptExcept(endpoints, endpoints', id)

merge(n, updates) == [f \in DOMAIN n |-> IF f \in DOMAIN updates THEN updates[f] ELSE n[f]]

updateExecutionNode(envs, envId, snaplexId, nodeId, updates) ==
    MapSeq(envs, LAMBDA env :
        IF env.id = envId
        THEN [env EXCEPT !.snaplexes =
                 MapSeq(@, LAMBDA s :
                     IF s.id = snaplexId
                     THEN [s EXCEPT !.container.nodes =
                              MapSeq(@, LAMBDA n : IF n.id = nodeId
                                                   THEN merge(n, updates) ELSE n)]
                     ELSE s)]
        ELSE env)

\* a millisecond passes between two handlers
Tick ==
    /\ now < MaxClock
    /\ now' = now + 1
    /\ UNCHANGED <<textVars, shapeVars, storeVars, layoutVars, persistVars>>

\* the lists stay within the bounds of the Sidebar's machine
SidebarWithinBounds(envs) ==
    /\ Len(envs) <= MaxEnvs
    /\ \A i \in 1..Len(envs) :
          /\ Len(envs[i].snaplexes) <= MaxSnaplexes
          /\ \A j \in 1..Len(envs[i].snaplexes) :
                Len(envs[i].snaplexes[j].container.nodes) <= MaxSidebarNodes

\* the store after a handler, and the pass of the App that follows
SidebarStore(op, envs, eps) ==
    /\ SidebarWithinBounds(envs)
    /\ Len(eps) <= MaxSidebarEndpoints
    /\ environments' = envs
    /\ endpoints' = eps
    /\ UNCHANGED <<connections, clockVars>>
    /\ StoreTouched
    /\ Pass(op, MaxSidebarIndex, envs, eps, connections)

HandleAddEnvironment ==
    SidebarStore("handleAddEnvironment",
                 addEnvironment(environments, Env("env-" \o ToStr(now))), endpoints)

HandleAddSnaplex ==
    \E i \in 1..Len(environments) :
       SidebarStore("handleAddSnaplex",
                    addSnaplex(environments, environments[i].id,
                               Snaplex("snaplex-" \o ToStr(now))),
                    endpoints)

HandleAddNode ==
    \E i \in 1..Len(environments) :
       \E j \in 1..Len(environments[i].snaplexes), nodeType \in NodeTypes :
          SidebarStore("handleAddNode",
                       addExecutionNode(environments, environments[i].id,
                                        environments[i].snaplexes[j].id,
                                        Node("node-" \o ToStr(now), nodeType)),
                       endpoints)

HandleAddEndpoint ==
    SidebarStore("handleAddEndpoint", environments,
                 Append(endpoints, Endpoint("endpoint-" \o ToStr(now))))

\* Array.prototype.find by id: the first element with the id, as a list of at most one
findById(seq, id) ==
    LET hits == {k \in 1..Len(seq) : seq[k].id = id}
    IN  IF hits = {} THEN <<>>
        ELSE <<seq[CHOOSE k \in hits : \A m \in hits : k <= m]>>

\* environments.find(...)?.snaplexes.find(...)?.container.nodes.find(...)
findNode(envs, envId, snaplexId, nodeId) ==
    LET env == findById(envs, envId)
        snaplex == IF env = <<>> THEN <<>> ELSE findById(env[1].snaplexes, snaplexId)
    IN  IF snaplex = <<>> THEN <<>> ELSE findById(snaplex[1].container.nodes, nodeId)

sizeOrder == <<"medium", "L", "XL", "2XL">>

\* sizeOrder.indexOf(size), counted from 1
indexOfSize(size) == CHOOSE n \in 1..Len(sizeOrder) : sizeOrder[n] = size

\* the buttons of the node cards: each hands its handler the ids of its environment,
\* cluster and node
NodeButtons ==
    {[envId |-> environments[i].id, snaplexId |-> environments[i].snaplexes[j].id,
      nodeId |-> environments[i].snaplexes[j].container.nodes[k].id,
      shown |-> environments[i].snaplexes[j].container.nodes[k]] :
        <<i, j, k>> \in
          {t \in (1..Len(environments)) \X (1..MaxSnaplexes) \X (1..MaxSidebarNodes) :
              /\ t[2] <= Len(environments[t[1]].snaplexes)
              /\ t[3] <= Len(environments[t[1]].snaplexes[t[2]].container.nodes)}}

\* a handler that found nothing to update: no store operation is called
SidebarNoUpdate(op, button) ==
    /\ lastCall' = [op |-> op, button |-> button, updated |-> FALSE]
    /\ UNCHANGED <<textVars, modelVars, isLoaded, loadPromise, loadState, libraryCache,
                   library, useLibraryShapes, counter, result, threw>>

\* the update of a node's handler, or nothing
NodeUpdate(op, button, applies, updates) ==
    IF applies
    THEN SidebarStore(op, updateExecutionNode(environments, button.envId,
                                              button.snaplexId, button.nodeId, updates),
                      endpoints)
    ELSE SidebarNoUpdate(op, button)

HandleNodeSizeUpOf(button) ==
       LET node == findNode(environments, button.envId, button.snaplexId, button.nodeId)
           currentIndex == indexOfSize(node[1].size)
       IN  NodeUpdate("handleNodeSizeUp", button,
                      node # <<>> /\ currentIndex < Len(sizeOrder),
                      [size |-> sizeOrder[currentIndex + 1]])

HandleNodeSizeUp == \E button \in NodeButtons : HandleNodeSizeUpOf(button)

HandleNodeSizeDownOf(button) ==
       LET node == findNode(environments, button.envId, button.snaplexId, button.nodeId)
           currentIndex == indexOfSize(node[1].size)
       IN  NodeUpdate("handleNodeSizeDown", button,
                      node # <<>> /\ currentIndex > 1,
                      [size |-> sizeOrder[currentIndex - 1]])

HandleNodeSizeDown == \E button \in NodeButtons : HandleNodeSizeDownOf(button)

HandleToggleMOOf(button) ==
       LET node == findNode(environments, button.envId, button.snaplexId, button.nodeId)
       IN  NodeUpdate("handleToggleMO", button,
                      node # <<>> /\ node[1].type = "JCC",
                      [memoryOptimized |-> ~node[1].memoryOptimized])

HandleToggleMO == \E button \in NodeButtons : HandleToggleMOOf(button)

\* handleDeleteEnvironment and the handleConfirmDelete of its dialog
HandleDeleteEnvironment ==
    \E i \in 1..Len(environments) :
       SidebarStore("handleDeleteEnvironment",
                    removeEnvironment(environments, environments[i].id), endpoints)

\* handleDeleteSnaplex and the handleConfirmDelete of its dialog
HandleDeleteSnaplex ==
    \E i \in 1..Len(environments) :
       \E j \in 1..Len(environments[i].snaplexes) :
          SidebarStore("handleDeleteSnaplex",
                       removeSnaplex(environments, environments[i].id,
                                     environments[i].snaplexes[j].id),
                       endpoints)

\* handleDeleteNode and the handleConfirmDelete of its dialog
HandleDeleteNode ==
    \E i \in 1..Len(environments) :
       \E j \in 1..Len(environments[i].snaplexes) :
          \E k \in 1..Len(environments[i].snaplexes[j].container.nodes) :
             SidebarStore("handleDeleteNode",
                          removeExecutionNode(environments, environments[i].id,
                              environments[i].snaplexes[j].id,
                              environments[i].snaplexes[j].container.nodes[k].id),
                          endpoints)

SidebarInit == Init

SidebarNext ==
    \/ Tick
    \/ HandleAddEnvironment
    \/ HandleAddSnaplex
    \/ HandleAddNode
    \/ HandleAddEndpoint
    \/ HandleNodeSizeUp
    \/ HandleNodeSizeDown
    \/ HandleToggleMO
    \/ HandleDeleteEnvironment
    \/ HandleDeleteSnaplex
    \/ HandleDeleteNode

SpecSidebar == SidebarInit /\ [][SidebarNext]_vars

\* ------------------------------------------------------------------------
\* autoLayout applied to bounded inputs
\* ------------------------------------------------------------------------
\* the numbers of nodes a cluster is given: none, a full row, a row and one node, and
\* the largest number
NodeCounts == {k \in 0..MaxLayoutNodes :
                  k = 0 \/ k = MaxLayoutNodes \/ k % (2 * nodesPerRow) \in {nodesPerRow, nodesPerRow + 1}}

RECURSIVE SumSeq(_)
SumSeq(seq) == IF Len(seq) = 0 THEN 0 ELSE seq[1] + SumSeq(Tail(seq))

\* an environment is drawn as the node counts of its clusters; the clusters of all
\* environments together number at most budget and hold at most nodes nodes
RECURSIVE EnvShapesOf(_, _, _, _)
EnvShapesOf(n, budget, nodes, counts) ==
    IF n = 0 THEN {<<>>}
    ELSE UNION {{<<clusters>> \o rest :
                    rest \in EnvShapesOf(n - 1, budget - Len(clusters),
                                         nodes - SumSeq(clusters), counts)} :
                   clusters \in {c \in UNION {[1..s -> counts] : s \in 0..budget} :
                                    SumSeq(c) <= nodes}}

EnvShapes(n, budget) == EnvShapesOf(n, budget, MaxLayoutNodes, NodeCounts)

LayoutShapes == UNION {EnvShapes(n, MaxLayoutSnaplexes) : n \in 0..MaxLayoutEnvs}

\* ids are `<kind>-${Date.now()}`: distinct when generated at different times, equal
\* within a kind when generated in the same millisecond
IdSchemes == {"distinct", "sameMillisecond"}

BuildNodes(scheme, prefix, n) ==
    [k \in 1..n |->
        Node(IF scheme = "sameMillisecond" THEN "t0" ELSE prefix \o "." \o ToStr(k), "JCC")]

BuildSnaplexes(scheme, prefix, clusters) ==
    [j \in 1..Len(clusters) |->
        LET id == IF scheme = "sameMillisecond" THEN "t0" ELSE prefix \o "." \o ToStr(j)
        IN  [Snaplex(id) EXCEPT !.container.nodes = BuildNodes(scheme, id, clusters[j])]]

\* under "kindPrefixed" the id of an environment is "node-" followed by the id of the
\* first node of its first cluster: unique among the environments, as are the others
BuildEnvs(scheme, shape) ==
    [i \in 1..Len(shape) |->
        LET id == CASE scheme = "sameMillisecond" -> "t0"
                    [] scheme = "kindPrefixed" -> "node-" \o ToStr(i) \o ".1.1"
                    [] OTHER -> ToStr(i)
        IN  [Env(id) EXCEPT !.snaplexes = BuildSnaplexes(scheme, ToStr(i), shape[i])]]

BuildEndpoints(scheme, n) ==
    [k \in 1..n |-> Endpoint(IF scheme = "sameMillisecond" THEN "t0" ELSE ToStr(k))]

\* connections from the first cluster to the first endpoint, present or not
BuildConnections(scheme, n) ==
    [k \in 1..n |-> Connection(IF scheme = "sameMillisecond" THEN "t0" ELSE ToStr(k),
                               "snaplex-1.1", "endpoint-1")]

LayoutInit ==
    /\ ShapeIdle
    /\ TextIdle
    /\ ClockIdle /\ PersistIdle
    /\ connections = <<>>
    /\ positions = <<>>
    /\ envDimensions = <<>>
    /\ \E scheme \in IdSchemes, shape \in LayoutShapes, n \in 0..MaxLayoutEndpoints :
          /\ environments = BuildEnvs(scheme, shape)
          /\ endpoints = BuildEndpoints(scheme, n)

\* autoLayout(environments, endpoints)
AutoLayoutCall ==
    /\ \E lay \in {autoLayout(environments, endpoints)} :
          /\ positions' = lay.positions
          /\ envDimensions' = lay.envDimensions
    /\ lastCall' = [op |-> "autoLayout"]
    /\ UNCHANGED <<isLoaded, loadPromise, loadState, libraryCache, library,
                   useLibraryShapes, counter, result, threw>>
    /\ UNCHANGED <<textVars, storeVars, clockVars, persistVars>>

LayoutNext == AutoLayoutCall

SpecLayout == LayoutInit /\ [][LayoutNext]_vars

\* ------------------------------------------------------------------------
\* generateExcalidrawElements applied to bounded inputs, the library not loaded
\* ------------------------------------------------------------------------
PassNodeCounts == {k \in 0..MaxPassNodes : k <= 1 \/ k > nodesPerRow}

PassShapes ==
    UNION {EnvShapesOf(n, MaxPassSnaplexes, MaxPassSnaplexes * MaxPassNodes, PassNodeCounts) :
              n \in 0..MaxPassEnvs}

PassIdSchemes == IdSchemes \cup {"kindPrefixed"}

PassInit ==
    /\ ShapeIdle
    /\ TextIdle
    /\ ClockIdle /\ PersistIdle
    /\ positions = <<>>
    /\ envDimensions = <<>>
    /\ \E scheme \in PassIdSchemes, shape \in PassShapes, n \in 0..MaxPassEndpoints,
          c \in 0..MaxPassConnections :
          /\ environments = BuildEnvs(scheme, shape)
          /\ endpoints = BuildEndpoints(scheme, n)
          /\ connections = BuildConnections(scheme, c)

\* one run of generateExcalidrawElements() over the store
GeneratePass ==
    /\ Pass("generateExcalidrawElements", MaxPassIndex, environments, endpoints, connections)
    /\ UNCHANGED <<storeVars, clockVars, persistVars>>

PassNext == GeneratePass

SpecPass == PassInit /\ [][PassNext]_vars

\* ------------------------------------------------------------------------
\* Store, layout and generation: the statements checked
\* ------------------------------------------------------------------------
StoreOps == {"addEnvironment", "removeEnvironment", "addSnaplex", "removeSnaplex",
             "addExecutionNode", "removeExecutionNode", "addEndpoint", "removeEndpoint",
             "addConnection", "removeConnection"}

\* the scene in result was generated from the store as it stands
Generated == lastCall.op \in StoreOps

Arrows(els) == SelectSeq(els, LAMBDA e : e.type = "arrow")

\* C7: whatever add and remove operations led to the store state, element generation
\* does not throw and produces exactly one arrow per connection, in the order of the
\* connections, also when a connection's source or target has no position; an arrow
\* whose source has no position starts at the default point (0, 0).
C7_OneArrowPerConnection ==
    Generated =>
       /\ ~threw
       /\ Len(Arrows(result)) = Len(connections)
       /\ \A k \in 1..Len(connections) :
             /\ k <= Len(Arrows(result))
             /\ Arrows(result)[k].id = "connection-" \o connections[k].id
             /\ connections[k].source \notin DOMAIN positions =>
                   (Arrows(result)[k].x = 0 /\ Arrows(result)[k].y = 0)

\* C7 witness: a scene generated after the cluster a connection starts from was
\* removed, with a second connection present: two arrows, the first at (0, 0)
C7_Witness ==
    /\ lastCall.op = "removeSnaplex"
    /\ Len(connections) = 2
    /\ connections[1].source = "snaplex-s1"
    /\ "snaplex-s1" \notin DOMAIN positions
    /\ Len(Arrows(result)) = 2
    /\ Arrows(result)[1].x = 0
    /\ Arrows(result)[1].y = 0
    /\ ~threw

AllSnaplexes(envs) ==
    {<<i, j>> \in (1..Len(envs)) \X (1..MaxLayoutSnaplexes + MaxSnaplexes) :
        j <= Len(envs[i].snaplexes)}

UniqueEnvIds(envs) ==
    \A i, j \in 1..Len(envs) : i # j => envs[i].id # envs[j].id

UniqueSnaplexIds(envs) ==
    \A a, b \in AllSnaplexes(envs) :
       a # b => envs[a[1]].snaplexes[a[2]].id # envs[b[1]].snaplexes[b[2]].id

LayoutDone == lastCall.op = "autoLayout"

\* C8: for inputs whose cluster ids are unique (the data model's invariant), autoLayout
\* records for every cluster with k nodes the dimension 450 x (300 + max(0,
\* ceil(k/5) - 1) * 70); with k = 0 that is the minimum 450 x 300.
C8_ClusterDimension ==
    (LayoutDone /\ UniqueSnaplexIds(environments)) =>
       \A a \in AllSnaplexes(environments) :
          LET snaplex == environments[a[1]].snaplexes[a[2]]
              k == Len(snaplex.container.nodes)
              key == "snaplex-" \o snaplex.id
          IN  /\ key \in DOMAIN envDimensions
              /\ envDimensions[key].width = 450
              /\ envDimensions[key].height = 300 + Max(0, Ceil(k, 5) - 1) * 70
              /\ k = 0 => envDimensions[key] = Dim(450, 300)

\* C8 witness: a layout of two clusters, one with 11 nodes recorded 450 x 440 and one
\* with no node recorded 450 x 300
C8_Witness ==
    /\ LayoutDone
    /\ UniqueSnaplexIds(environments)
    /\ \E a, b \in AllSnaplexes(environments) :
          LET sa == environments[a[1]].snaplexes[a[2]]
              sb == environments[b[1]].snaplexes[b[2]]
          IN  /\ Len(sa.container.nodes) = 11
              /\ envDimensions["snaplex-" \o sa.id] = Dim(450, 440)
              /\ Len(sb.container.nodes) = 0
              /\ envDimensions["snaplex-" \o sb.id] = Dim(450, 300)

\* C9: every environment dimension autoLayout returns is at least 1200 x 500, and (ids
\* of environments being unique) an environment with no cluster gets exactly
\* 1200 x 500 wherever it stands in the sequence.
C9_EnvironmentMinimum ==
    LayoutDone =>
       /\ \A i \in 1..Len(environments) :
             LET key == "env-" \o environments[i].id
             IN  /\ key \in DOMAIN envDimensions
                 /\ envDimensions[key].width >= 1200
                 /\ envDimensions[key].height >= 500
       /\ UniqueEnvIds(environments) =>
             \A i \in 1..Len(environments) :
                Len(environments[i].snaplexes) = 0 =>
                   envDimensions["env-" \o environments[i].id] = Dim(1200, 500)

\* C9 witness: the third environment (the first of the second row) has no cluster and
\* got 1200 x 500 while an environment before it grew beyond the minimum
C9_Witness ==
    /\ LayoutDone
    /\ UniqueEnvIds(environments)
    /\ Len(environments) = 3
    /\ Len(environments[3].snaplexes) = 0
    /\ envDimensions["env-" \o environments[3].id] = Dim(1200, 500)
    /\ \E i \in 1..2 : envDimensions["env-" \o environments[i].id].height > 500

UniqueNodeIds(envs) ==
    LET all == {<<a, k>> \in AllSnaplexes(envs) \X (1..MaxLayoutNodes + MaxNodes + 1) :
                   k <= Len(envs[a[1]].snaplexes[a[2]].container.nodes)}
        idOf(n) == envs[n[1][1]].snaplexes[n[1][2]].container.nodes[n[2]].id
    IN  \A m, n \in all : m # n => idOf(m) # idOf(n)

UniqueEndpointIds(eps) ==
    \A i, j \in 1..Len(eps) : i # j => eps[i].id # eps[j].id

\* the rectangle autoLayout assigns to a key: its position and its dimension
Rect(key) ==
    [x |-> positions[key].x, y |-> positions[key].y,
     width |-> envDimensions[key].width, height |-> envDimensions[key].height]

\* two rectangles share a point of their interiors
Overlap(a, b) ==
    /\ a.x < b.x + b.width
    /\ b.x < a.x + a.width
    /\ a.y < b.y + b.height
    /\ b.y < a.y + a.height

\* rectangle a lies inside rectangle b, edges included
Within(a, b) ==
    /\ b.x <= a.x
    /\ a.x + a.width <= b.x + b.width
    /\ b.y <= a.y
    /\ a.y + a.height <= b.y + b.height

\* C24: for inputs whose ids are unique within their kind, the rectangle autoLayout
\* gives each cluster (its position, 450 wide and as high as recorded) lies inside the
\* rectangle of the environment that owns it, and the position of each node lies
\* inside the rectangle of the cluster that owns it, for any number of clusters per
\* environment and of nodes per cluster.
C24_Containment ==
    (LayoutDone /\ UniqueEnvIds(environments) /\ UniqueSnaplexIds(environments)
                /\ UniqueNodeIds(environments)) =>
       \A a \in AllSnaplexes(environments) :
          LET env == environments[a[1]]
              snaplex == env.snaplexes[a[2]]
              cluster == Rect("snaplex-" \o snaplex.id)
          IN  /\ cluster.width = 450
              /\ Within(cluster, Rect("env-" \o env.id))
              /\ \A k \in 1..Len(snaplex.container.nodes) :
                    LET at == positions["node-" \o snaplex.container.nodes[k].id]
                    IN  Within([x |-> at.x, y |-> at.y, width |-> 0, height |-> 0],
                               cluster)

\* C24 witness: the layout of an environment of three clusters, wider than the minimum,
\* one of its clusters holding 11 nodes in three rows, the last node on the third row
C24_Witness ==
    /\ LayoutDone
    /\ UniqueEnvIds(environments)
    /\ UniqueSnaplexIds(environments)
    /\ UniqueNodeIds(environments)
    /\ \E a \in AllSnaplexes(environments) :
          LET env == environments[a[1]]
              snaplex == env.snaplexes[a[2]]
          IN  /\ Len(env.snaplexes) = 3
              /\ envDimensions["env-" \o env.id].width > 1200
              /\ Len(snaplex.container.nodes) = 11
              /\ positions["node-" \o snaplex.container.nodes[11].id].y
                    = positions["snaplex-" \o snaplex.id].y + 360

\* C11: for inputs whose ids are unique within their kind, the rectangles autoLayout
\* assigns to two distinct environments do not overlap, and neither do the rectangles
\* it assigns to two distinct clusters of one environment.
C11_NoOverlap ==
    (LayoutDone /\ UniqueEnvIds(environments) /\ UniqueSnaplexIds(environments)) =>
       /\ \A i, j \in 1..Len(environments) :
             i # j => ~Overlap(Rect("env-" \o environments[i].id),
                               Rect("env-" \o environments[j].id))
       /\ \A a, b \in AllSnaplexes(environments) :
             (a # b /\ a[1] = b[1]) =>
                ~Overlap(Rect("snaplex-" \o environments[a[1]].snaplexes[a[2]].id),
                         Rect("snaplex-" \o environments[b[1]].snaplexes[b[2]].id))

\* C11 witness: three environments, the first with three clusters and grown beyond
\* the minimum in both directions; the second stands to its right, the third below it
C11_Witness ==
    /\ LayoutDone
    /\ UniqueEnvIds(environments)
    /\ UniqueSnaplexIds(environments)
    /\ Len(environments) = 3
    /\ Len(environments[1].snaplexes) = 3
    /\ Rect("env-" \o environments[1].id).width > ENV_WIDTH
    /\ Rect("env-" \o environments[1].id).height > ENV_HEIGHT
    /\ Rect("env-" \o environments[2].id).x =
          Rect("env-" \o environments[1].id).x + Rect("env-" \o environments[1].id).width + 50
    /\ Rect("env-" \o environments[3].id).y =
          Rect("env-" \o environments[1].id).y + Rect("env-" \o environments[1].id).height + 100

\* C13: autoLayout places all endpoints on one y that is at or below the bottom edge
\* (y + height) of every environment, for an even number, an odd number and no
\* environment alike; endpoint ids being unique, the i-th endpoint (0-based) is at
\* x = 50 + 200 * i.
C13_EndpointRow ==
    LayoutDone =>
       /\ \A i \in 1..Len(endpoints) :
             LET key == "endpoint-" \o endpoints[i].id
             IN  /\ key \in DOMAIN positions
                 /\ positions[key].y = positions["endpoint-" \o endpoints[1].id].y
                 /\ \A k \in 1..Len(environments) :
                       positions[key].y >= Rect("env-" \o environments[k].id).y
                                           + Rect("env-" \o environments[k].id).height
       /\ UniqueEndpointIds(endpoints) =>
             \A i \in 1..Len(endpoints) :
                positions["endpoint-" \o endpoints[i].id].x = 50 + (200 * (i - 1))

\* C13 witness: two endpoints below three environments (the last row holds one), the
\* second endpoint at x = 250, both 150 below the bottom edge of the third environment
C13_Witness ==
    /\ LayoutDone
    /\ UniqueEndpointIds(endpoints)
    /\ UniqueEnvIds(environments)
    /\ Len(environments) = 3
    /\ Len(endpoints) = 2
    /\ positions["endpoint-" \o endpoints[2].id].x = 250
    /\ positions["endpoint-" \o endpoints[2].id].y =
          Rect("env-" \o environments[3].id).y + Rect("env-" \o environments[3].id).height + 150
    /\ Rect("env-" \o environments[3].id).height > ENV_HEIGHT

\* the rectangle autoLayout assigned to the environment at 0-based index i
EnvRect(i) == Rect("env-" \o environments[i + 1].id)

\* C14: autoLayout packs environments two per row (ids of environments being unique):
\* the first row is at y = 50 and the two environments of a row share its y; an
\* environment at even 0-based index has x = 50, one at odd index has x = 50 + (width
\* of the environment before it) + 50; every later row's y is the y of the row before
\* it plus the largest height in that row plus 100.
C14_TwoPerRow ==
    (LayoutDone /\ UniqueEnvIds(environments)) =>
       \A i \in 0..(Len(environments) - 1) :
          /\ i = 0 => EnvRect(i).y = 50
          /\ i % 2 = 0 => EnvRect(i).x = 50
          /\ i % 2 = 1 => /\ EnvRect(i).x = 50 + EnvRect(i - 1).width + 50
                          /\ EnvRect(i).y = EnvRect(i - 1).y
          /\ (i % 2 = 0 /\ i >= 2) =>
                EnvRect(i).y = EnvRect(i - 2).y
                               + Max(EnvRect(i - 2).height, EnvRect(i - 1).height) + 100

\* C14 witness: five environments in three rows, the first wider and taller than the
\* minimum: the second starts right of 1300, the second row below 650, the third row
\* 600 below the second
C14_Witness ==
    /\ LayoutDone
    /\ UniqueEnvIds(environments)
    /\ Len(environments) = 5
    /\ EnvRect(0).width > ENV_WIDTH
    /\ EnvRect(0).height > ENV_HEIGHT
    /\ EnvRect(1).x = 50 + EnvRect(0).width + 50
    /\ EnvRect(1).x > 1300
    /\ EnvRect(2).y = 50 + EnvRect(0).height + 100
    /\ EnvRect(2).y > 650
    /\ EnvRect(3).y = EnvRect(2).y
    /\ EnvRect(4).y = EnvRect(2).y + 600
    /\ EnvRect(4).x = 50

PassDone == lastCall.op = "generateExcalidrawElements"

\* the scenario: one production environment holding one cloudplex cluster of six medium
\* JCC nodes without memory optimisation, no endpoint, no connection, no library
SixNodeScenario ==
    /\ PassDone
    /\ ~isLoaded
    /\ Len(environments) = 1
    /\ environments[1].type = "production"
    /\ Len(environments[1].snaplexes) = 1
    /\ environments[1].snaplexes[1].type = "cloudplex"
    /\ Len(environments[1].snaplexes[1].container.nodes) = 6
    /\ \A k \in 1..6 :
          LET node == environments[1].snaplexes[1].container.nodes[k]
          IN  node.type = "JCC" /\ node.size = "medium" /\ ~node.memoryOptimized
    /\ endpoints = <<>>
    /\ connections = <<>>

\* what the layout gives the scenario: the environment at least 1200 x 500, the
\* cluster 370 high
SixNodeLayout ==
    /\ envDimensions["env-" \o environments[1].id].width >= 1200
    /\ envDimensions["env-" \o environments[1].id].height >= 500
    /\ envDimensions["snaplex-" \o environments[1].snaplexes[1].id].height = 370

\* the number of elements of a type in a scene
CountType(els, type) == Cardinality({k \in 1..Len(els) : els[k].type = type})

\* the node part of the scenario's scene: six ellipses, each followed by its label, and
\* no indicator badge
SixNodePrimitives(first) ==
    /\ CountType(result, "ellipse") = 6
    /\ \A k \in 1..6 :
          LET node == environments[1].snaplexes[1].container.nodes[k]
          IN  /\ result[first + (2 * (k - 1))].id = "node-" \o node.id
              /\ result[first + (2 * (k - 1))].type = "ellipse"
              /\ result[first + (2 * (k - 1)) + 1].id = "label-node-" \o node.id
              /\ result[first + (2 * (k - 1)) + 1].type = "text"
              /\ \A j \in 1..Len(result) :
                    result[j].id \notin {"indicator-bg-" \o node.id,
                                         "indicator-text-" \o node.id}

\* C12 as stated: the scenario's scene has exactly 16 primitives: the environment
\* rectangle and label, one cluster container and one cluster header label, and six
\* node ellipses with six node labels.
C12_SixteenPrimitives ==
    SixNodeScenario =>
       /\ SixNodeLayout
       /\ ~threw
       /\ Len(result) = 16

\* C12 amended: the scenario's scene has exactly 17 primitives, in this order: the
\* environment rectangle and its label, the cluster rectangle and its header label, the
\* cluster's dashed container, and six node ellipses each followed by its label; no
\* indicator badge; the environment is at least 1200 x 500 and the cluster 370 high.
C12_SeventeenPrimitives ==
    SixNodeScenario =>
       /\ SixNodeLayout
       /\ ~threw
       /\ Len(result) = 17
       /\ result[1].id = "env-" \o environments[1].id
       /\ result[1].type = "rectangle"
       /\ result[2].id = "label-" \o environments[1].id
       /\ result[2].type = "text"
       /\ result[3].id = "snaplex-" \o environments[1].snaplexes[1].id
       /\ result[3].type = "rectangle"
       /\ result[4].id = "label-snaplex-" \o environments[1].snaplexes[1].id
       /\ result[4].type = "text"
       /\ result[5].id = "container-" \o environments[1].snaplexes[1].id
       /\ result[5].type = "rectangle"
       /\ result[5].height = 370
       /\ SixNodePrimitives(6)
       /\ CountType(result, "rectangle") = 3
       /\ CountType(result, "text") = 8

\* C12 witness: the scenario with ids all distinct, generated: 17 primitives, the last
\* the label of the sixth node
C12_Witness ==
    /\ SixNodeScenario
    /\ UniqueNodeIds(environments)
    /\ Len(result) = 17
    /\ result[17].id = "label-node-" \o environments[1].snaplexes[1].container.nodes[6].id

\* ------------------------------------------------------------------------
\* The documentation functions applied to bounded inputs
\* ------------------------------------------------------------------------
\* a line that fits every width, a line of three words, an empty line
DocLineKinds == {"short", "words", "empty"}

DocLine(kind) ==
    CASE kind = "short" -> Chars("ab")
      [] kind = "words" -> Chars("aa bb cc")
      [] OTHER -> <<>>

\* a text of n lines of one kind
DocText(n, kind) == join([k \in 1..n |-> DocLine(kind)], NL)

\* a block as wide as the documentation column, and one only a few characters wide
DocWidths == {750, 20}

DocYs == {0, 9500}

DocStyles == {standardTextStyle, tableTextStyle}

\* the columns of a table: a text column, a boolean column, a text column too narrow
\* for its placeholder
DocColumns ==
    << [key |-> "id", label |-> Chars("Id"), width |-> 4, format |-> "text", default |-> <<>>],
       [key |-> "mo", label |-> Chars("MO"), width |-> 3, format |-> "boolean",
        default |-> <<>>],
       [key |-> "name", label |-> Chars("Name"), width |-> 5, format |-> "text",
        default |-> <<>>] >>

DocCellKinds == {"value", "long", "missing"}

\* the r-th data row: its id is r, its name a value of the kind
DocRow(r, kind) ==
    [id |-> StringValue(Chars("r" \o ToStr(r))),
     mo |-> BooleanValue(r % 2 = 0),
     name |-> CASE kind = "value" -> StringValue(Chars("node"))
                [] kind = "long" -> StringValue(Chars("node-long"))
                [] OTHER -> Undefined]

DocData(n, kind) == [r \in 1..n |-> DocRow(r, kind)]

\* the primitives a report pushed: the main title and what the sections added
DocList(n) ==
    [k \in 1..n |->
        [createTextElement(Chars("title"), 50, 9500 + (k * 850), 750, standardTextStyle)
            EXCEPT !.id = docGenerateId(k)]]

DocCalls ==
    {[op |-> "createTextElements", text |-> DocText(n, kind), x |-> 50, y |-> y,
      maxWidth |-> w, style |-> style] :
        n \in 0..MaxDocLines, kind \in DocLineKinds, y \in DocYs, w \in DocWidths,
        style \in DocStyles}
    \cup {[op |-> "createTable", data |-> DocData(n, kind), columns |-> DocColumns,
           x |-> 50, y |-> 9500, width |-> w] :
             n \in 0..MaxDocRows, kind \in DocCellKinds, w \in DocWidths}
    \cup {[op |-> "generateDocumentationElements", allElements |-> DocList(n)] :
             n \in 1..MaxDocElements}

DocInit ==
    /\ ShapeIdle
    /\ StoreIdle
    /\ ClockIdle /\ PersistIdle
    /\ text = <<>>
    /\ maxCharsPerLine = MinCharsBound
    /\ maxLinesPerChunk = 1
    /\ chunks = <<>>
    /\ wrapInput = <<>>
    /\ wrapped = <<>>
    /\ textPc = "idle"
    /\ docCall \in DocCalls
    /\ docReturn = NotReturned

DocUnchanged ==
    UNCHANGED <<text, maxCharsPerLine, maxLinesPerChunk, chunks, wrapInput, wrapped, textPc,
                docCall, shapeVars, modelVars>>

\* createTextElements(text, x, y, maxWidth, style)
CreateTextElementsCall ==
    /\ docCall.op = "createTextElements"
    /\ ~docReturn.done
    /\ \E r \in {createTextElements(docCall.text, docCall.x, docCall.y, docCall.maxWidth,
                                    docCall.style)} :
          docReturn' = [done |-> TRUE, elements |-> r.elements,
                        totalHeight |-> r.totalHeight, chunks |-> r.chunks]
    /\ DocUnchanged

\* createTable(data, columns, x, y, width)
CreateTableCall ==
    /\ docCall.op = "createTable"
    /\ ~docReturn.done
    /\ \E r \in {createTable(docCall.data, docCall.columns, docCall.x, docCall.y,
                             docCall.width)} :
          docReturn' = [done |-> TRUE, element |-> r.element, height |-> r.height]
    /\ DocUnchanged

\* the groupings generateDocumentationElements returns for the primitives it pushed
GenerateDocumentationElementsCall ==
    /\ docCall.op = "generateDocumentationElements"
    /\ ~docReturn.done
    /\ \E r \in {groupElements(docCall.allElements)} :
          docReturn' = [done |-> TRUE, groups |-> r]
    /\ DocUnchanged

DocNext ==
    \/ CreateTextElementsCall
    \/ CreateTableCall
    \/ GenerateDocumentationElementsCall

SpecDoc == DocInit /\ [][DocNext]_vars

Returned(op) == docCall.op = op /\ docReturn.done

\* C15: the four groupings generateDocumentationElements returns partition the list of
\* generated primitives, whatever its length n >= 1: the overview, then the inventory,
\* the environment details and the decision records, read one after the other, are
\* the list itself, every primitive once and in list order.
C15_GroupsPartition ==
    Returned("generateDocumentationElements") =>
       <<docReturn.groups.architectureOverview>>
          \o docReturn.groups.nodeInventoryTable
          \o docReturn.groups.environmentDetails
          \o docReturn.groups.decisionRecords
       = docCall.allElements

\* the lines of the text of the primitive createTable emitted
EmittedLines == split(docReturn.element.text, NL)

\* the line budget createTable's text is flowed with
TableCharsPerLine == getCharactersPerLine(tableTextStyle.fontSize, docCall.width)

\* C16: createTable passes the whole formatted table through the text flow: the header,
\* the rule under it and every data row (each short enough not to be wrapped) are lines
\* of the text of the emitted primitive, also when the table has more than 15 lines.
C16_AllRowsEmitted ==
    (Returned("createTable") /\ Len(headerRow(docCall.columns)) <= TableCharsPerLine) =>
       /\ \E k \in 1..Len(EmittedLines) : EmittedLines[k] = headerRow(docCall.columns)
       /\ \E k \in 1..Len(EmittedLines) :
             EmittedLines[k] = repeat(Rule, Len(headerRow(docCall.columns)))
       /\ \A r \in 1..Len(docCall.data) :
             \E k \in 1..Len(EmittedLines) :
                EmittedLines[k] = rowText(docCall.data[r], docCall.columns)

\* C17: createTextElements stacks its n chunks from y downward: the first at y, each
\* next one at the y of the one before plus its height, plus a gap of 10 pixels when
\* n > 1; totalHeight is the sum of the chunk heights plus the gaps between consecutive
\* chunks: sum + 10 * (n - 1) pixels for n > 1, the chunk's height for n = 1.
C17_StackedHeights ==
    Returned("createTextElements") =>
       LET els == docReturn.elements
           n == Len(els)
           gap == IF n > 1 THEN ChunkGap ELSE 0
       IN  /\ n = Len(docReturn.chunks)
           /\ els[1].y = docCall.y
           /\ \A k \in 1..(n - 1) : els[k + 1].y = els[k].y + els[k].height + gap
           /\ \A k \in 1..n :
                 els[k].height = calculateTextHeight(docReturn.chunks[k],
                                     docCall.style.fontSize, docCall.style.lineHeight)
           /\ docReturn.totalHeight
                 = SumSeq([k \in 1..n |-> els[k].height]) + (ChunkGap * (n - 1))

\* C18: in every store state the Sidebar's handlers reach from the empty store, ids
\* are unique within their kind: no two environments, no two clusters, no two nodes
\* and no two endpoints share an id.
C18_SidebarIdsUnique ==
    /\ UniqueEnvIds(environments)
    /\ UniqueSnaplexIds(environments)
    /\ UniqueNodeIds(environments)
    /\ UniqueEndpointIds(endpoints)

\* the nodes of the store
StoreNodes ==
    {environments[t[1]].snaplexes[t[2]].container.nodes[t[3]] :
        t \in {u \in (1..Len(environments)) \X (1..MaxSnaplexes) \X (1..MaxSidebarNodes) :
                  /\ u[2] <= Len(environments[u[1]].snaplexes)
                  /\ u[3] <= Len(environments[u[1]].snaplexes[u[2]].container.nodes)}}

\* C29: in every store state the Sidebar's handlers reach from the empty store no FM
\* node has memoryOptimized = true and every node's size is one of medium, L, XL and
\* 2XL; size up on a 2XL node and size down on a medium node leave the store
\* unchanged.
C29_NodeFlagsAndSizes ==
    /\ [](\A node \in StoreNodes :
             /\ node.type = "FM" => ~node.memoryOptimized
             /\ node.size \in NodeSizes)
    /\ [][\A button \in NodeButtons :
             /\ (button.shown.size = "2XL" /\ HandleNodeSizeUpOf(button))
                   => UNCHANGED storeVars
             /\ (button.shown.size = "medium" /\ HandleNodeSizeDownOf(button))
                   => UNCHANGED storeVars
         ]_vars

UniqueConnectionIds(conns) ==
    \A i, j \in 1..Len(conns) : i # j => conns[i].id # conns[j].id

UniqueWithinKind ==
    /\ UniqueEnvIds(environments)
    /\ UniqueSnaplexIds(environments)
    /\ UniqueNodeIds(environments)
    /\ UniqueEndpointIds(endpoints)
    /\ UniqueConnectionIds(connections)

\* C19: for a model whose ids are unique within their kind, the primitives of one
\* element-generation pass in fallback mode (the library not loaded) have pairwise
\* distinct ids.
C19_ElementIdsDistinct ==
    (PassDone /\ ~isLoaded /\ UniqueWithinKind) =>
       \A i, j \in 1..Len(result) : i # j => result[i].id # result[j].id

\* the ids cloneLibraryItem gives the elements of a library shape
LibraryIds == {generateId(r, k) : r \in 1..MaxRand, k \in 1..Len(ItemElements)}

\* a step in which createSnaplex or createExecutionNode was called and returned
SynthesisStep ==
    /\ lastCall'.op \in {"createSnaplex", "createExecutionNode"}
    /\ <<lastCall, result, counter, libraryCache>>' # <<lastCall, result, counter, libraryCache>>

\* the shape type and the first id of the built-in shape of the call made in this step
CalledType ==
    IF lastCall'.op = "createSnaplex" THEN lastCall'.snaplex.type
    ELSE NodeShapeType(lastCall'.node)

BuiltInId ==
    IF lastCall'.op = "createSnaplex" THEN "snaplex-" \o lastCall'.snaplex.id
    ELSE "node-" \o lastCall'.node.id

\* C20: availability is read again on every synthesis call: a createSnaplex or
\* createExecutionNode call made before the load completed returns the built-in shape,
\* a call made after it completed returns the library shape when the catalog has a
\* non-empty item for the type, and the flag the call went by is the loader's state
\* at the call, never an older one.
C20_AvailabilityReread ==
    [][SynthesisStep =>
          /\ useLibraryShapes' = isLoaded
          /\ ~threw'
          /\ ~isLoaded => result'[1].id = BuiltInId
          /\ (isLoaded /\ library[CalledType] = "shape") => result'[1].id \in LibraryIds
      ]_vars

\* a call after the load completed returned the library shape, a call before it having
\* returned the built-in one (the generateIndex counter moved)
C20_Witness ==
    /\ lastCall.op \in {"createSnaplex", "createExecutionNode"}
    /\ \E i \in 1..Len(loadState) : loadState[i] = "fulfilled"
    /\ isLoaded
    /\ useLibraryShapes
    /\ counter > 1
    /\ Len(result) > 0
    /\ result[1].id \in LibraryIds

\* the loads in flight
InFlight == {i \in 1..Len(loadState) : loadState[i] = "pending"}

LastLoadFailed == loadState # <<>> /\ loadState[Len(loadState)] = "rejected"

\* C22: a failed load allows retry: after a load attempt fails isLibraryLoaded() is
\* false, the next initialize() starts a new load attempt and returns it rather than
\* the failed one, and when that attempt succeeds isLibraryLoaded() becomes true.
C22_FailedLoadAllowsRetry ==
    /\ [](LastLoadFailed => ~isLoaded)
    /\ [][(Initialize /\ LastLoadFailed) =>
             /\ Len(loadState') = Len(loadState) + 1
             /\ lastCall'.returned = Len(loadState')
         ]_vars
    /\ [][(LoadSucceeds /\ Len(loadState) > 1) => isLoaded']_vars

\* C28: loader availability is consistent and monotone: whenever isLibraryLoaded() is
\* true the library manager holds a parsed catalog, and once isLibraryLoaded() is true
\* it stays true under every initialize, getShape, clearCache and reloadLibrary call.
C28_AvailabilityMonotone ==
    /\ [](isLoaded => libraryManagerIsLoaded)
    /\ [][isLoaded => isLoaded']_vars

\* the loader is available and calls have been made after the load succeeded
C28_Witness ==
    /\ isLoaded
    /\ libraryManagerIsLoaded
    /\ lastCall.op = "clearCache"
    /\ Len(loadState) = 2
    /\ loadState[2] = "fulfilled"

\* a createSnaplex or createExecutionNode call, the latest call before it having been
\* forceRenderingMode(m) and getRenderingMode() still being m
SynthesisAfterForce ==
    /\ CreateExecutionNode \/ CreateSnaplex
    /\ lastCall.op = "forceRenderingMode"
    /\ getRenderingMode = lastCall.mode

\* C25: forceRenderingMode(m) forces the rendering mode: right after it
\* getRenderingMode() returns m, and a following createSnaplex or createExecutionNode
\* call goes by strategy m whatever the loader's availability is: the mode is still m
\* after the call, and under 'basic' the call returns the built-in shape.
C25_ForcedModeHolds ==
    /\ [][ForceRenderingMode => getRenderingMode' = lastCall'.mode]_vars
    /\ [][SynthesisAfterForce =>
             /\ getRenderingMode' = lastCall.mode
             /\ lastCall.mode = "basic" => result'[1].id = BuiltInId
         ]_vars

\* ---- the text-flow state machine ----
TextInit ==
    /\ ShapeIdle
    /\ StoreIdle
    /\ ClockIdle /\ PersistIdle
    /\ text \in Texts
    /\ maxCharsPerLine \in MinCharsBound..MaxCharsBound
    /\ maxLinesPerChunk \in 1..MaxLinesBound
    /\ chunks = <<>>
    /\ wrapInput = <<>>
    /\ wrapped = <<>>
    /\ textPc = "input"
    /\ DocIdle

\* TextUtils.chunkText(text, maxCharsPerLine, maxLinesPerChunk)
ChunkTextCall ==
    /\ textPc = "input"
    /\ chunks' = chunkText(text, maxCharsPerLine, maxLinesPerChunk)
    /\ textPc' = "chunked"
    /\ UNCHANGED <<text, maxCharsPerLine, maxLinesPerChunk, wrapInput, wrapped, docVars>>
    /\ UNCHANGED <<shapeVars, modelVars>>

\* TextUtils.wrapLine(line, maxCharsPerLine) on one logical line of the text
WrapLineCall ==
    /\ textPc = "input"
    /\ \E k \in 1..Len(split(text, NL)) :
         /\ wrapInput' = split(text, NL)[k]
         /\ wrapped' = wrapLine(split(text, NL)[k], maxCharsPerLine)
    /\ textPc' = "wrapped"
    /\ UNCHANGED <<text, maxCharsPerLine, maxLinesPerChunk, chunks, docVars>>
    /\ UNCHANGED <<shapeVars, modelVars>>

TextNext == ChunkTextCall \/ WrapLineCall

SpecText == TextInit /\ [][TextNext]_vars

\* ------------------------------------------------------------------------
\* Text flow: the statements checked
\* ------------------------------------------------------------------------
RECURSIVE Flatten(_)
Flatten(seqs) == IF Len(seqs) = 0 THEN <<>> ELSE seqs[1] \o Flatten(Tail(seqs))

NonEmpty(seqs) == SelectSeq(seqs, LAMBDA w : w # <<>>)

\* the words of a string: the maximal runs of characters other than space and line break
WordsOf(s) ==
    NonEmpty(Flatten([k \in 1..Len(split(s, NL)) |-> split(split(s, NL)[k], SP)]))

\* every line of every chunk, in order
ChunkLinesOf(cs) == Flatten([k \in 1..Len(cs) |-> split(cs[k], NL)])

\* the total number of wrapped lines of a text
WrappedCount(t, maxChars) ==
    Len(Flatten([k \in 1..Len(split(t, NL)) |-> wrapLine(split(t, NL)[k], maxChars)]))

CeilDiv(a, b) == (a + b - 1) \div b

Truncated(w, maxChars) == substring0(w, maxChars - 3) \o Ellipsis

\* C2 (as claimed): every line wrapLine returns has at most maxCharsPerLine
\* characters, and a word longer than the budget is emitted as its first
\* maxCharsPerLine - 3 characters plus "...", wherever it occurs in the line.
C2_LinesWithinBudget ==
    textPc = "wrapped" =>
       /\ \A k \in 1..Len(wrapped) : Len(wrapped[k]) <= maxCharsPerLine
       /\ Len(wrapInput) > maxCharsPerLine =>
            \A k \in 1..Len(WordsOf(wrapInput)) :
               Len(WordsOf(wrapInput)[k]) > maxCharsPerLine =>
                  /\ k <= Len(WordsOf(join(wrapped, NL)))
                  /\ WordsOf(join(wrapped, NL))[k] =
                        Truncated(WordsOf(wrapInput)[k], maxCharsPerLine)

\* C3 (as claimed): every chunk holds 1..maxLinesPerChunk lines, every chunk but the
\* last exactly maxLinesPerChunk, and there are ceil(W / maxLinesPerChunk) chunks.
ChunkShape ==
    /\ \A k \in 1..Len(chunks) :
          /\ Len(split(chunks[k], NL)) >= 1
          /\ Len(split(chunks[k], NL)) <= maxLinesPerChunk
          /\ k < Len(chunks) => Len(split(chunks[k], NL)) = maxLinesPerChunk
    /\ Len(chunks) = CeilDiv(WrappedCount(text, maxCharsPerLine), maxLinesPerChunk)

C3_ChunkCountOriginal == textPc = "chunked" => ChunkShape

\* C3 (amended): the same when wrapping yields at least one line (W >= 1); when it
\* yields none (every logical line is over-long and made of spaces only) chunkText
\* returns the text itself as its single chunk.
C3_ChunkCount ==
    textPc = "chunked" =>
       IF WrappedCount(text, maxCharsPerLine) >= 1 THEN ChunkShape ELSE chunks = <<text>>

\* C3 witness: a wrapped line, more than one chunk, and a last chunk that is not full
C3_Witness ==
    /\ textPc = "chunked"
    /\ maxLinesPerChunk = 2
    /\ Len(chunks) = 2
    /\ Len(split(chunks[2], NL)) = 1
    /\ \E k \in 1..Len(split(text, NL)) : Len(split(text, NL)[k]) > maxCharsPerLine

\* C4: the words of all lines of all chunks, in order, are the words of the text in
\* order, none dropped, duplicated or reordered; the only difference allowed is a word
\* longer than maxCharsPerLine standing in its ellipsis-truncated form.
C4_WordsPreserved ==
    textPc = "chunked" =>
       LET inW == WordsOf(text)
           outW == NonEmpty(Flatten([k \in 1..Len(ChunkLinesOf(chunks)) |->
                                        split(ChunkLinesOf(chunks)[k], SP)]))
       IN  /\ Len(outW) = Len(inW)
           /\ \A k \in 1..Len(inW) :
                 \/ outW[k] = inW[k]
                 \/ /\ Len(inW[k]) > maxCharsPerLine
                    /\ outW[k] = Truncated(inW[k], maxCharsPerLine)

\* C4 witness: a wrapped text of several words, one of them truncated
C4_Witness ==
    /\ textPc = "chunked"
    /\ Len(WordsOf(text)) >= 2
    /\ Len(chunks) >= 1
    /\ \E k \in 1..Len(ChunkLinesOf(chunks)) :
          ChunkLinesOf(chunks)[k] = Truncated(WordsOf(text)[1], maxCharsPerLine)
    /\ Len(WordsOf(text)[1]) > maxCharsPerLine


\* ------------------------------------------------------------------------
\* excalidrawHelpers.ts: the order keys of generateIndex as strings
\* ------------------------------------------------------------------------
MaxIndexCalls == 100

\* the UTF-16 code units of a decimal numeral, of 'a' and of 'V'
RECURSIVE DigitCodes(_)
DigitCodes(n) ==
    IF n < 10 THEN <<48 + n>> ELSE DigitCodes(n \div 10) \o <<48 + (n % 10)>>

\* the template literal `a${base}${suffix}` as its code units
IndexKey(index) ==
    <<97>> \o DigitCodes(index[2]) \o (IF index[3] = "V" THEN <<86>> ELSE <<>>)

\* a < b on strings: the first differing code unit decides, a proper prefix is smaller
StringLess(a, b) ==
    \E k \in 1..Len(b) :
       /\ \A i \in 1..(k - 1) : i <= Len(a) /\ a[i] = b[i]
       /\ k > Len(a) \/ (k <= Len(a) /\ a[k] < b[k])

\* one call of generateIndex(); result collects the keys returned so far
GenerateIndex ==
    /\ Len(result) < MaxIndexCalls
    /\ result' = Append(result, IndexKey(generateIndex(counter)))
    /\ counter' = counter + 1
    /\ lastCall' = [op |-> "generateIndex"]
    /\ UNCHANGED <<isLoaded, loadPromise, loadState, libraryCache, library,
                   useLibraryShapes, threw>>
    /\ UNCHANGED <<textVars, modelVars>>

IndexInit == ShapeInit

IndexNext == GenerateIndex

SpecIndex == IndexInit /\ [][IndexNext]_vars

\* C23: over any sequence of generateIndex calls every returned key is distinct from
\* and strictly greater, in string order, than every key returned earlier.
C23_KeysIncrease ==
    lastCall.op = "generateIndex" =>
       \A i, j \in 1..Len(result) : i < j => StringLess(result[i], result[j])

\* every key returned differs from every key returned earlier
C23_KeysDistinct ==
    lastCall.op = "generateIndex" =>
       \A i, j \in 1..Len(result) : i < j => result[i] # result[j]


\* ------------------------------------------------------------------------
\* architectureStore.ts: exportState / importState and the rest of the store,
\* called directly on the store
\* ------------------------------------------------------------------------
MaxPersistEntities == 4

\* Date.prototype.toJSON: JSON.stringify writes a Date as a string
DateString(d) == [string |-> "date-" \o ToStr(d.date)]

\* a Date is written as its string, a string as itself
DateJson(d) == IF "date" \in DOMAIN d THEN DateString(d) ELSE d

\* JSON.stringify of the metadata: the Date fields become strings
MetadataJson(m) ==
    [title |-> m.title,
     createdAt |-> DateJson(m.createdAt),
     updatedAt |-> DateJson(m.updatedAt)]

\* exportState(): JSON.stringify({environments, endpoints, connections, metadata}); the
\* lists hold strings, booleans, arrays and plain objects only, which JSON keeps
exportStateNoConnections(envs, eps, conns, m) ==
    [kind |-> "object",
     data |-> [environments |-> envs, endpoints |-> eps, metadata |-> MetadataJson(m)]]

exportState(envs, eps, conns, m) ==
    [kind |-> "object",
     data |-> [environments |-> envs, endpoints |-> eps, connections |-> conns,
               metadata |-> MetadataJson(m)]]

\* strings handed to importState that exportState did not write: text that is no JSON,
\* the JSON text null, and the empty JSON object
NotJson == [kind |-> "invalid"]
JsonNull == [kind |-> "null"]
JsonEmptyObject == [kind |-> "object", data |-> <<>>]

\* JSON.parse(json): throws on text that is no JSON
JSONparse(json) ==
    IF json.kind = "invalid" THEN [threw |-> TRUE, data |-> JsonNull]
    ELSE IF json.kind = "null" THEN [threw |-> FALSE, data |-> JsonNull]
    ELSE [threw |-> FALSE, data |-> json.data]

\* data[key] || fallback, for a key that is absent or holds an array or an object
OrElse(data, key, fallback) == IF key \in DOMAIN data THEN data[key] ELSE fallback

StoreLists(envs, eps, conns, m, didThrow) ==
    [environments |-> envs, endpoints |-> eps, connections |-> conns, metadata |-> m,
     threw |-> didThrow]

\* an importState without its try/catch
importStateNoCatch(envs, eps, conns, m, json) ==
    LET parsed == JSONparse(json)
    IN  IF parsed.threw \/ parsed.data = JsonNull
        THEN StoreLists(envs, eps, conns, m, TRUE)
        ELSE StoreLists(OrElse(parsed.data, "environments", <<>>),
                        OrElse(parsed.data, "endpoints", <<>>),
                        OrElse(parsed.data, "connections", <<>>),
                        OrElse(parsed.data, "metadata", m), FALSE)

\* importState(json): a JSON.parse that throws, or a property read on null that
\* throws, is caught and logged; otherwise the three lists and the metadata are set
importState(envs, eps, conns, m, json) ==
    LET parsed == JSONparse(json)
    IN  IF parsed.threw \/ parsed.data = JsonNull
        THEN StoreLists(envs, eps, conns, m, FALSE)
        ELSE StoreLists(OrElse(parsed.data, "environments", <<>>),
                        OrElse(parsed.data, "endpoints", <<>>),
                        OrElse(parsed.data, "connections", <<>>),
                        OrElse(parsed.data, "metadata", m), FALSE)

\* the operations on the lists, as the lists they leave
ListMutations ==
    {[environments |-> envs, endpoints |-> endpoints, connections |-> connections] :
        envs \in {addEnvironment(environments, Env("e1")),
                  removeEnvironment(environments, "e1"),
                  addSnaplex(environments, "e1", Snaplex("s1")),
                  addExecutionNode(environments, "e1", "s1", Node("n1", "JCC"))}}
    \cup
    {[environments |-> environments, endpoints |-> eps, connections |-> connections] :
        eps \in {Append(endpoints, Endpoint("p1"))}}
    \cup
    {[environments |-> environments, endpoints |-> endpoints, connections |-> conns] :
        conns \in {Append(connections, Connection("c1", "snaplex-s1", "endpoint-p1")),
                   FilterSeq(connections, LAMBDA c : c.id # "c1")}}

\* the number of entities the lists hold, at every level
EntityCount(envs, eps, conns) ==
    Len(envs) + Len(eps) + Len(conns)
    + SumSeq([i \in 1..Len(envs) |->
                 Len(envs[i].snaplexes)
                 + SumSeq([j \in 1..Len(envs[i].snaplexes) |->
                              Len(envs[i].snaplexes[j].container.nodes)])])

PersistUntouched == UNCHANGED <<textVars, layoutVars, clockVars, isLoaded, loadPromise,
                                loadState, libraryCache, library, useLibraryShapes,
                                counter, result>>

\* one add or remove operation on the store
StoreMutation ==
    \E m \in ListMutations :
       /\ EntityCount(m.environments, m.endpoints, m.connections) <= MaxPersistEntities
       /\ environments' = m.environments
       /\ endpoints' = m.endpoints
       /\ connections' = m.connections
       /\ StoreTouched
       /\ lastCall' = [op |-> "storeOperation"]
       /\ threw' = FALSE
       /\ PersistUntouched

\* setSelectedItem(id)
SetSelectedItem ==
    \E id \in {"e1", NoSelection} :
       /\ selectedItemId' = id
       /\ lastCall' = [op |-> "setSelectedItem"]
       /\ threw' = FALSE
       /\ UNCHANGED <<environments, endpoints, connections, metadata,
                      architectureDescription, persistVars>>
       /\ PersistUntouched

\* updateArchitectureDescription(description)
UpdateArchitectureDescription ==
    \E description \in {"", "two environments"} :
       /\ architectureDescription' = description
       /\ lastCall' = [op |-> "updateArchitectureDescription"]
       /\ threw' = FALSE
       /\ UNCHANGED <<environments, endpoints, connections, metadata, selectedItemId,
                      persistVars>>
       /\ PersistUntouched

\* j = exportState()
ExportState ==
    /\ exported' = exportState(environments, endpoints, connections, metadata)
    /\ exportedAt' = [kind |-> "lists", environments |-> environments,
                      endpoints |-> endpoints, connections |-> connections]
    /\ lastCall' = [op |-> "exportState"]
    /\ threw' = FALSE
    /\ UNCHANGED storeVars
    /\ PersistUntouched

\* importState(json)
ImportStateOf(json) ==
    /\ \E out \in {importState(environments, endpoints, connections, metadata, json)} :
          /\ environments' = out.environments
          /\ endpoints' = out.endpoints
          /\ connections' = out.connections
          /\ metadata' = out.metadata
          /\ threw' = out.threw
    /\ lastCall' = [op |-> "importState", json |-> json.kind,
                    own |-> (json = exported)]
    /\ UNCHANGED <<selectedItemId, architectureDescription, persistVars>>
    /\ PersistUntouched

ImportState == \E json \in {NotJson, JsonNull, JsonEmptyObject, exported} \ {NoExport} :
                  ImportStateOf(json)

PersistInit == Init

PersistNext ==
    \/ StoreMutation
    \/ SetSelectedItem
    \/ UpdateArchitectureDescription
    \/ ExportState
    \/ ImportState

SpecPersist == PersistInit /\ [][PersistNext]_vars

\* C26: importState on a string that is not valid JSON leaves the whole store state
\* (environments, endpoints, connections, metadata, selectedItemId,
\* architectureDescription) unchanged and does not throw.
C26_InvalidJsonIgnored ==
    [][ImportStateOf(NotJson) => (UNCHANGED storeVars /\ ~threw')]_vars

\* importState was handed text that is no JSON while the store held entities, a
\* selection and a description
C26_Witness ==
    /\ lastCall.op = "importState"
    /\ lastCall.json = "invalid"
    /\ ~threw
    /\ environments # <<>>
    /\ connections # <<>>
    /\ selectedItemId # NoSelection
    /\ architectureDescription # ""

====
